---- MODULE Spec2Model ----
(***************************************************************************)
(* A model of figma-bridge-mcp's extraction core:                          *)
(*   - StreamingExtractor.extractWithProgress and its four fallback        *)
(*     levels (src/src/services/streaming-extractor.ts),                   *)
(*   - FigmaClient.makeRequest, its retry loop and one SSE attempt         *)
(*     (src/unnamed/part_003, the FigmaClient source),                     *)
(*   - FigmaClient.getFromCache / setCache (same file),                    *)
(*   - ProgressTracker (src/src/__tests__/server.test.ts, lines 41-295).   *)
(*                                                                         *)
(* Several specifications share the module: Spec and FairSpec (one         *)
(* extractWithProgress invocation against a remote service whose           *)
(* behaviour is drawn in Init), SpecRetry (makeRequest and the client      *)
(* methods), SpecCache (the TTL cache under a clock), SpecClient           *)
(* (testConnection and one SSE attempt, step by step), SpecTimeouts        *)
(* (getStageTimeouts), SpecTracker (the efficiency score), SpecOverlap     *)
(* (two invocations on one StreamingExtractor) and SpecTimers (Spec with   *)
(* the stage timers that outlive their race).                              *)
(*                                                                         *)
(* JavaScript values: `undefined` of an optional string/object is the      *)
(* empty tuple <<>>, a present object is the one-element tuple <<obj>>,    *)
(* `null` code is the string Null.  Strings that the code matches with     *)
(* regular expressions (URLs, node ids) are tuples of lexical tokens.      *)
(***************************************************************************)
EXTENDS Integers, Sequences, FiniteSets, TLC

(***************************************************************************)
(* URLs.  A URL is a sequence of tokens; each token is a piece of text     *)
(* that the regular expressions of parseFigmaUrl and detectComplexLayout   *)
(* either match whole or reject whole.                                     *)
(***************************************************************************)

\* digit runs occurring in the sample URLs, with their decimal digits
DigitsOf ==
  ( "10"   :> <<1, 0>> )       @@ ( "20"   :> <<2, 0>> ) @@
  ( "12"   :> <<1, 2>> )       @@ ( "34"   :> <<3, 4>> ) @@
  ( "123"  :> <<1, 2, 3>> )    @@
  ( "1311" :> <<1, 3, 1, 1>> ) @@ ( "9692" :> <<9, 6, 9, 2>> ) @@
  ( "11"   :> <<1, 1>> )

IsDigits(t) == t \in DOMAIN DigitsOf

\* tokens made of letters and digits only: they match [a-zA-Z0-9]+
AlnumTokens == DOMAIN DigitsOf \cup {"ABC123", "Foo", "test", "5h7RH37bjkXERjpF5dhtFX",
                                     "Compasso", "t", "yYSTaSy5g7qI4B5A"}

IsAlnum(t) == t \in AlnumTokens

\* https://www.figma.com/design/ABC123/Foo?node-id=10-20
UrlDesignNode ==
  <<"https://", "www.", "figma.com/", "design/", "ABC123", "/", "Foo",
    "?", "node-id=", "10", "-", "20">>

\* https://figma.com/file/123/test   (streaming-extractor.test.ts:122)
UrlFileNoNode ==
  <<"https://", "figma.com/", "file/", "123", "/", "test">>

\* https://x.com/design/ABC123/Foo?node-id=10-20   (not a figma.com URL)
UrlOtherHost ==
  <<"https://", "x.com/", "design/", "ABC123", "/", "Foo",
    "?", "node-id=", "10", "-", "20">>

\* https://www.figma.com/design/5h7RH37bjkXERjpF5dhtFX/Compasso?node-id=1311-9692&t=yYSTaSy5g7qI4B5A-11
UrlComplex ==
  <<"https://", "www.", "figma.com/", "design/", "5h7RH37bjkXERjpF5dhtFX", "/",
    "Compasso", "?", "node-id=", "1311", "-", "9692", "&", "t", "=",
    "yYSTaSy5g7qI4B5A", "-", "11">>

\* https://figma.com/file/123/test?t=11&node-id=12%3A34
UrlEncodedNode ==
  <<"https://", "figma.com/", "file/", "123", "/", "test", "?", "t", "=", "11",
    "&", "node-id=", "12", "%3A", "34">>

Urls == {UrlDesignNode, UrlFileNoNode, UrlOtherHost, UrlComplex, UrlEncodedNode}

\* the positions of s that satisfy P, and the least of them (0 if none)
Positions(s, P(_)) == {i \in 1..Len(s) : P(i)}
First(S) == IF S = {} THEN 0 ELSE CHOOSE i \in S : \A j \in S : i <= j

\* the longest run s[i..k] of tokens satisfying P that starts at i
RunEnd(s, i, P(_)) ==
  LET ends == {k \in i..Len(s) : \A j \in i..k : P(s[j])}
  IN  IF ends = {} THEN i - 1 ELSE CHOOSE k \in ends : \A j \in ends : j <= k

\* /figma\.com\/(?:file|design)\/([a-zA-Z0-9]+)/ : index of the leftmost match
UrlPatternAt(url) ==
  First(Positions(url, LAMBDA i :
          /\ i + 2 <= Len(url)
          /\ url[i] = "figma.com/"
          /\ url[i + 1] \in {"file/", "design/"}
          /\ IsAlnum(url[i + 2])))

\* /[?&]node-id=([^&]+)/ : index of the leftmost match
NodeIdParamAt(url) ==
  First(Positions(url, LAMBDA i :
          /\ i + 2 <= Len(url)
          /\ url[i] \in {"?", "&"}
          /\ url[i + 1] = "node-id="
          /\ url[i + 2] # "&"))

\* .replace(/%3A/g, ':')
ReplaceColon(s) == [i \in 1..Len(s) |-> IF s[i] = "%3A" THEN ":" ELSE s[i]]

\* FigmaClient.parseFigmaUrl: [ok, fileId, nodeId]; ok = FALSE is the
\* FigmaClientError('Invalid Figma URL format', 'INVALID_URL')
parseFigmaUrl(url) ==
  LET m == UrlPatternAt(url)
      n == NodeIdParamAt(url)
  IN  IF m = 0
      THEN [ok |-> FALSE, fileId |-> <<>>, nodeId |-> <<>>]
      ELSE [ok     |-> TRUE,
            fileId |-> SubSeq(url, m + 2, RunEnd(url, m + 2, IsAlnum)),
            nodeId |-> IF n = 0 THEN <<>>
                       ELSE ReplaceColon(
                              SubSeq(url, n + 2,
                                     RunEnd(url, n + 2, LAMBDA t : t # "&")))]


(***************************************************************************)
(* State.                                                                  *)
(***************************************************************************)
VARIABLES
  config,       \* FigmaClient.config: retryAttempts, cacheEnabled, cacheTTL
  svc,          \* how the remote service answers each method (environment)
  now,          \* Date.now()
  cache,        \* FigmaClient.cache: cacheKey -> [data, timestamp, ttl]
  pc,           \* position of the running extractWithProgress invocation
  input,        \* its argument
  finalResult,  \* extractWithProgress's local finalResult
  warnings,     \* its local warnings[]
  errors,       \* its local errors[]
  progress,     \* the events handed to onProgress, oldest first
  tracker,      \* ProgressTracker's fields
  isConnected,  \* what testConnection() returned: <<>> before it returned
  race,         \* the Promise.race being awaited: <<>> or <<[op, level, call]>>
  background,   \* client calls that lost their race and are still running
  invoked,      \* client methods invoked so far, as <<method, level>>
  settled,      \* settled races, as <<op, level, outcome>>
  returned,     \* <<>> until the invocation returns <<result>>
  thrown,       \* <<>> unless the invocation rejected with <<message>>
  req,          \* the running FigmaClient.makeRequest call
  lastRead,     \* the latest getFromCache call and the keys it found expired
  probe,        \* the running FigmaClient.testConnection call
  sse,          \* the running FigmaClient.makeRequestWithSSE attempt
  calc,         \* the calls of pure methods made, as [fn, arg, value], oldest first
  overlap,      \* two invocations on one StreamingExtractor: its tracker, their positions
  timers        \* stage timers whose race the call settled and that were not cleared

vars == <<config, svc, now, cache, pc, input, finalResult, warnings, errors,
          progress, tracker, isConnected, race, background, invoked, settled,
          returned, thrown, req, lastRead, probe, sse, calc, overlap, timers>>

Null == "null"

\* DEFAULT_FIGMA_CLIENT_CONFIG.cacheTTL and .retryAttempts
DefaultCacheTTL == 300000
DefaultRetryAttempts == 1

(***************************************************************************)
(* The result cache.                                                       *)
(***************************************************************************)
Remove(c, key) == [k \in DOMAIN c \ {key} |-> c[k]]

\* faulty variant: an entry expires as soon as its age reaches the TTL
getFromCache_ExpiresAtTTL(c, key, t) ==
  IF key \notin DOMAIN c
  THEN [data |-> <<>>, cache |-> c]
  ELSE IF t - c[key].timestamp >= c[key].ttl
       THEN [data |-> <<>>, cache |-> Remove(c, key)]
       ELSE [data |-> <<c[key].data>>, cache |-> c]

\* FigmaClient.getFromCache: data is <<>> for null, <<d>> for a hit; the
\* expired entry is deleted by the read
getFromCache(c, key, t) ==
  IF key \notin DOMAIN c
  THEN [data |-> <<>>, cache |-> c]
  ELSE IF t - c[key].timestamp > c[key].ttl
       THEN [data |-> <<>>, cache |-> Remove(c, key)]
       ELSE [data |-> <<c[key].data>>, cache |-> c]

\* FigmaClient.setCache
setCache(c, key, data, t, ttl) ==
  (key :> [data |-> data, timestamp |-> t, ttl |-> ttl]) @@ c

\* the cacheKey template strings of getVariableDefinitions, getCodeConnectMap
\* and getCode (selection = {url, nodeId})
CacheKey(op, url, nodeId) ==
  CASE op = "variables"  -> <<"getVariables", url, nodeId>>
    [] op = "components" -> <<"getCodeConnect", url, nodeId>>
    [] op = "code"       -> <<"getCode", url, nodeId>>

(***************************************************************************)
(* ProgressTracker.                                                        *)
(***************************************************************************)
\* ProgressTracker.start(): the fields after the reset.  `started` and
\* `frozen` are the key sets of stageStartTimes and stageDurations.
TrackerStart ==
  [currentStage |-> "", started |-> {}, frozen |-> {},
   timeoutOccurred |-> FALSE, timeoutStage |-> <<>>,
   cacheHits |-> 0, retryAttempts |-> 0]

Clamp(lo, x, hi) == IF x < lo THEN lo ELSE IF x > hi THEN hi ELSE x

\* ProgressTracker.updateStage: the event it returns (stage, clamped
\* percentage, message; interpolated counts are left out of the message)
ProgressEvent(stage, percentage, message) ==
  <<stage, Clamp(0, percentage, 100), message>>

\* ProgressTracker.updateStage: the tracker's fields afterwards
updateStage(tr, stage, percentage) ==
  LET moved == stage # tr.currentStage
      t1 == IF moved
            THEN [tr EXCEPT
                    !.frozen = IF tr.currentStage # "" /\ tr.currentStage \notin tr.frozen
                               THEN @ \cup {tr.currentStage} ELSE @,
                    !.currentStage = stage,
                    !.started = @ \cup {stage}]
            ELSE tr
      t2 == IF percentage = 100 /\ stage \notin t1.frozen
            THEN [t1 EXCEPT !.frozen = @ \cup {stage}]
            ELSE t1
  IN  t2

\* ProgressTracker.getPerformanceMetrics, without the measured durations
getPerformanceMetrics(tr) ==
  [timeoutOccurred |-> tr.timeoutOccurred, timeoutStage |-> tr.timeoutStage,
   cacheHits |-> tr.cacheHits, retryAttempts |-> tr.retryAttempts]

(***************************************************************************)
(* ProgressTracker with the clock readings it keeps.  stageStartTimes and  *)
(* stageDurations are maps from stage to a number; the empty map is <<>>.  *)
(***************************************************************************)
\* map.set(key, value)
MapSet(map, key, value) == (key :> value) @@ map

\* map.get(key) || fallback
MapGetOr(map, key, fallback) ==
  IF key \in DOMAIN map /\ map[key] # 0 THEN map[key] ELSE fallback

\* ProgressTracker.start() when Date.now() reads t
startAt(t) ==
  [startTime |-> t, stageStartTimes |-> <<>>, stageDurations |-> <<>>,
   currentStage |-> "", timeoutOccurred |-> FALSE, timeoutStage |-> <<>>,
   cacheHits |-> 0, retryAttempts |-> 0]

\* ProgressTracker.updateStage when Date.now() reads t: the fields afterwards
updateStageAt(tr, stage, percentage, t) ==
  LET moved == stage # tr.currentStage
      previous == tr.currentStage
      d1 == IF moved /\ previous # "" /\ previous \notin DOMAIN tr.stageDurations
            THEN MapSet(tr.stageDurations, previous,
                        t - MapGetOr(tr.stageStartTimes, previous, t))
            ELSE tr.stageDurations
      s1 == IF moved THEN MapSet(tr.stageStartTimes, stage, t)
            ELSE tr.stageStartTimes
      d2 == IF percentage = 100 /\ stage \notin DOMAIN d1
            THEN MapSet(d1, stage, t - MapGetOr(s1, stage, t))
            ELSE d1
  IN  [tr EXCEPT !.currentStage = stage, !.stageStartTimes = s1,
                 !.stageDurations = d2]

\* ProgressTracker.updateStage when Date.now() reads t: the event it returns
\* (the message and the constant partialData are left out)
ProgressEventAt(tr, stage, percentage, t) ==
  [stage |-> stage, percentage |-> Clamp(0, percentage, 100),
   duration |-> t - tr.startTime]

\* ProgressTracker.getPerformanceMetrics when Date.now() reads t
getPerformanceMetricsAt(tr, t) ==
  [totalDuration      |-> t - tr.startTime,
   variablesDuration  |-> MapGetOr(tr.stageDurations, "variables", 0),
   componentsDuration |-> MapGetOr(tr.stageDurations, "components", 0),
   codeDuration       |-> MapGetOr(tr.stageDurations, "code", 0),
   timeoutOccurred    |-> tr.timeoutOccurred,
   timeoutStage       |-> tr.timeoutStage,
   cacheHits          |-> tr.cacheHits,
   retryAttempts      |-> tr.retryAttempts]

\* the extractWithProgress invocations that may overlap on one extractor
Invocations == {1, 2}

\* One invocation: its position, the events handed to its onProgress, the
\* performance of its result, and, for comparison, a tracker of its own on
\* which the same calls are made, with the events and performance that
\* tracker yields.
CallIdle ==
  [pc |-> "idle", events |-> <<>>, performance |-> <<>>,
   own |-> startAt(0), ownEvents |-> <<>>, ownPerformance |-> <<>>]

\* no invocation yet: the extractor's tracker as constructed
OverlapIdle ==
  [progressTracker |-> startAt(0), calls |-> [i \in Invocations |-> CallIdle]]


(***************************************************************************)
(* StreamingExtractor: pure helpers.                                       *)
(***************************************************************************)
\* url.match(/node-id=([^&]+)/): the captured node id, <<>> without a match
NodeIdMatch(url) ==
  LET i == First(Positions(url, LAMBDA k :
                   /\ k + 1 <= Len(url)
                   /\ url[k] = "node-id="
                   /\ url[k + 1] # "&"))
  IN  IF i = 0 THEN <<>>
      ELSE SubSeq(url, i + 1, RunEnd(url, i + 1, LAMBDA t : t # "&"))

\* StreamingExtractor.detectComplexLayout
detectComplexLayout(url) ==
  LET nodeId == NodeIdMatch(url)
      hasHighNumbers ==
        \E i \in 1..Len(nodeId) : IsDigits(nodeId[i]) /\ Len(DigitsOf[nodeId[i]]) >= 4
      hasMultipleParts ==
        Cardinality({i \in 1..Len(nodeId) : nodeId[i] = "-"}) >= 2
      isInComplexRange ==
        /\ IsDigits(nodeId[1])
        /\ Len(DigitsOf[nodeId[1]]) >= 4
        /\ LET d == DigitsOf[nodeId[1]]
           IN  \/ d[1] = 1 /\ d[2] = 3
               \/ d[1] = 1 /\ d[2] \in 4..9
               \/ d[1] \in 2..9
  IN  IF url = <<>> \/ nodeId = <<>> THEN FALSE
      ELSE hasHighNumbers \/ hasMultipleParts \/ isInComplexRange

\* the warning and error texts of streaming-extractor.ts
WFallbackBalanced == "Falling back to essential data extraction (variables + components only)"
WFallbackMinimal == "Falling back to minimal extraction (variables only)"
WFallbackEmergency == "Using emergency fallback - providing basic file information"
WComponentMapping == "Component mapping failed, but variables are available"
WComplexLayout == "Complex layout detected. Code generation may timeout gracefully."
WCodeTimedOut == "Code generation timed out - design data still fully available"
WEmergencyActive == "Emergency fallback active - Figma MCP server may be overloaded or design is extremely complex"
WEmergencyBasic == "Basic file information extracted from URL"
WEmergencyAdvice == "For better results: 1) Try smaller frame selections, 2) Use IDE integration, 3) Retry later"
ENoInput == "Either figmaData or url must be provided"
EServerUnavailable == "Figma MCP server is not available. Please ensure Figma desktop app is running."
EInvalidUrl == "Invalid Figma URL format"

\* A frame holds the locals of a running extractWithProgress: finalResult,
\* warnings, errors, the progress events emitted, the tracker, `next`: the
\* client call its code awaits next, <<>> when it returns instead, and
\* `failed`: whether it returns from its catch block.
\* onProgress(this.progressTracker.updateStage(stage, percentage, ...))
\* (f ranges over the singleton {F} so that TLC evaluates F once)
Emit(F, stage, percentage, message) ==
  CHOOSE G \in {[f EXCEPT !.tracker = updateStage(f.tracker, stage, percentage),
                          !.progress = Append(@, ProgressEvent(stage, percentage, message))]
                  : f \in {F}} : TRUE

Warn(F, w) == [F EXCEPT !.warnings = Append(@, w)]

Await(F, op, level) == [F EXCEPT !.next = <<[op |-> op, level |-> level]>>]

\* faulty variant: the ladder's return is not followed by a closing event
Complete_Silent(F) == [F EXCEPT !.next = <<>>]

\* executeExtractionStages, after the ladder returned: the closing event
Complete(F) ==
  [Emit(F, "complete", 100, "Extraction completed") EXCEPT !.next = <<>>]

\* faulty variant: the catch block does not record the error's message
CatchError_DropsMessage(F, message) ==
  [Emit(F, "complete", 0, "Extraction failed")
     EXCEPT !.next = <<>>, !.failed = TRUE]

\* the catch block of extractWithProgress
CatchError(F, message) ==
  [Emit([F EXCEPT !.errors = Append(@, message)], "complete", 0,
        "Extraction failed")
     EXCEPT !.next = <<>>, !.failed = TRUE]

\* faulty variant: the emergency level forgets to record its metadata
executeEmergencyFallback_NoMetadata(F, url, nodeId) ==
  LET F1 == [F EXCEPT !.fd.variables = <<>>, !.fd.components = <<>>,
                      !.fd.codeConnectMap = <<>>, !.fd.code = Null]
      F2 == Warn(Warn(Warn(F1, WEmergencyActive), WEmergencyBasic), WEmergencyAdvice)
  IN  Emit(Emit(Emit(F2, "variables", 100, "Emergency fallback: Basic info extracted"),
                "components", 100, "Emergency fallback: File metadata available"),
           "code", 100, "Emergency fallback: URL data parsed")

\* StreamingExtractor.executeEmergencyFallback (level 4)
executeEmergencyFallback(F, url, nodeId) ==
  LET urlData == parseFigmaUrl(url)
      meta == [extractionMethod   |-> "emergency_fallback",
               figmaFileId        |-> urlData.fileId,
               figmaNodeId        |-> IF nodeId # <<>> THEN nodeId ELSE urlData.nodeId,
               complexityDetected |-> detectComplexLayout(url)]
      F1 == [F EXCEPT !.fd.variables = <<>>, !.fd.components = <<>>,
                      !.fd.codeConnectMap = <<>>, !.fd.code = Null,
                      !.fd.metadata = <<meta>>]
      F2 == Warn(Warn(Warn(F1, WEmergencyActive), WEmergencyBasic), WEmergencyAdvice)
  IN  Emit(Emit(Emit(F2, "variables", 100, "Emergency fallback: Basic info extracted"),
                "components", 100, "Emergency fallback: File metadata available"),
           "code", 100, "Emergency fallback: URL data parsed")

\* tryMinimalExtraction (level 3) up to its await
BeginMinimal(F) ==
  Await(Emit(F, "variables", 0, "Minimal variables extraction..."), "variables", 3)

\* tryBalancedExtraction (level 2) up to its first await
BeginBalanced(F) ==
  Await(Emit(F, "variables", 0, "Fast variables extraction..."), "variables", 2)

\* tryOptimalExtraction (level 1) up to its first await
BeginOptimal(F) ==
  Await(Emit(F, "variables", 0, "Extracting design variables..."), "variables", 1)

\* faulty variant: there is no level 4; a failed level 3 throws into the catch block
LevelFailed_NoEmergency(F, level, inp) ==
  CASE level = 1 -> BeginBalanced(Warn(F, WFallbackBalanced))
    [] level = 2 -> BeginMinimal(Warn(F, WFallbackMinimal))
    [] level = 3 -> CatchError(F, "Minimal extraction failed")

\* faulty variant: a failed level 2 goes straight to the emergency fallback
LevelFailed_SkipsMinimal(F, level, inp) ==
  CASE level = 1 -> BeginBalanced(Warn(F, WFallbackBalanced))
    [] level = 2 -> Complete(executeEmergencyFallback(
                               Warn(F, WFallbackEmergency), inp.url, F.fd.nodeId))
    [] level = 3 -> Complete(executeEmergencyFallback(
                               Warn(F, WFallbackEmergency), inp.url, F.fd.nodeId))

\* faulty variant: under timeoutStrategy 'fail' a failed level throws into
\* the catch block instead of falling back to the next level
LevelFailed_FailStrategyThrows(F, level, inp) ==
  IF "timeoutStrategy" \in DOMAIN inp /\ inp.timeoutStrategy = "fail"
  THEN CatchError(F, "Extraction level failed")
  ELSE CASE level = 1 -> BeginBalanced(Warn(F, WFallbackBalanced))
         [] level = 2 -> BeginMinimal(Warn(F, WFallbackMinimal))
         [] level = 3 -> Complete(executeEmergencyFallback(
                                    Warn(F, WFallbackEmergency), inp.url, F.fd.nodeId))

\* executeProgressiveFallbackExtraction: what follows a level returning false
LevelFailed(F, level, inp) ==
  CASE level = 1 -> BeginBalanced(Warn(F, WFallbackBalanced))
    [] level = 2 -> BeginMinimal(Warn(F, WFallbackMinimal))
    [] level = 3 -> Complete(executeEmergencyFallback(
                               Warn(F, WFallbackEmergency), inp.url, F.fd.nodeId))

\* faulty variant: the code call is started as soon as the variables race
\* has settled, without the components race in between
OptimalVariables_StartsCode(F, ok, data, inp) ==
  IF ok
  THEN Await(Emit(Emit([F EXCEPT !.fd.variables = data.variables],
                       "variables", 100, "Variables found"),
                  "code", 0, "Generating React code..."),
             "code", 1)
  ELSE LevelFailed(F, 1, inp)

\* tryOptimalExtraction, phase 1: the variables race has settled
OptimalVariables(F, ok, data, inp) ==
  IF ok
  THEN Await(Emit(Emit([F EXCEPT !.fd.variables = data.variables],
                       "variables", 100, "Variables found"),
                  "components", 0, "Analyzing components..."),
             "components", 1)
  ELSE LevelFailed(F, 1, inp)

\* faulty variant: code generation is attempted whenever there is a node id
OptimalCodeStart_IgnoresOption(G, inp) ==
  IF G.fd.nodeId # <<>>
  THEN Await(Emit(G, "code", 0, "Generating React code..."), "code", 1)
  ELSE Complete(Emit(G, "code", 100, "Code generation skipped"))

\* tryOptimalExtraction, phase 3 up to its await: code generation starts,
\* or is skipped and the level returns true
OptimalCodeStart(G, inp) ==
  LET shouldIncludeCode == inp.includeCode # FALSE
  IN  IF shouldIncludeCode /\ G.fd.nodeId # <<>>
      THEN IF detectComplexLayout(inp.url)
           THEN Await(Warn(Emit(G, "code", 0,
                                "Complex layout - attempting code generation with aggressive timeout"),
                           WComplexLayout), "code", 1)
           ELSE Await(Emit(G, "code", 0, "Generating React code..."), "code", 1)
      ELSE Complete(Emit(G, "code", 100, "Code generation skipped"))

\* faulty variant: a lost components race goes on to code without a warning
OptimalComponents_Silent(F, ok, data, inp) ==
  IF ok
  THEN OptimalCodeStart(Emit([F EXCEPT !.fd.codeConnectMap = data.mappings],
                             "components", 100, "Components mappings"), inp)
  ELSE OptimalCodeStart(F, inp)

\* tryOptimalExtraction, phase 2: the components race has settled
OptimalComponents(F, ok, data, inp) ==
  IF ok
  THEN OptimalCodeStart(Emit([F EXCEPT !.fd.codeConnectMap = data.mappings],
                             "components", 100, "Components mappings"), inp)
  ELSE OptimalCodeStart(Warn(F, WComponentMapping), inp)

\* tryOptimalExtraction, phase 3: the code race has settled
OptimalCode(F, ok, data, inp) ==
  IF ok
  THEN Complete(Emit([F EXCEPT
                        !.fd.code = IF data.code = "" THEN Null ELSE data.code,
                        !.fd.components = data.components],
                     "code", 100, "Code generation completed"))
  ELSE Complete(Emit(Warn(F, WCodeTimedOut), "code", 50,
                     "Code generation timed out gracefully"))

\* tryOptimalExtraction, resumed when the race of `op` has settled
tryOptimalExtraction(F, op, ok, data, inp) ==
  CASE op = "variables"  -> OptimalVariables(F, ok, data, inp)
    [] op = "components" -> OptimalComponents(F, ok, data, inp)
    [] op = "code"       -> OptimalCode(F, ok, data, inp)

\* tryBalancedExtraction, resumed when the race of `op` has settled
tryBalancedExtraction(F, op, ok, data, inp) ==
  CASE op = "variables" ->
         IF ok
         THEN Await(Emit(Emit([F EXCEPT !.fd.variables = data.variables],
                              "variables", 100, "Variables found"),
                         "components", 0, "Fast components extraction..."),
                    "components", 2)
         ELSE LevelFailed(F, 2, inp)
    [] op = "components" ->
         IF ok
         THEN Complete(Emit(Emit([F EXCEPT !.fd.codeConnectMap = data.mappings],
                                 "components", 100, "Components mappings"),
                            "code", 100, "Code generation skipped for performance"))
         ELSE Complete(Emit(F, "code", 100, "Code generation skipped for performance"))

\* tryMinimalExtraction, resumed when the variables race has settled
tryMinimalExtraction(F, op, ok, data, inp) ==
  IF ok
  THEN Complete(Emit(Emit(Emit([F EXCEPT !.fd.variables = data.variables],
                               "variables", 100, "Variables found"),
                          "components", 100, "Components skipped for performance"),
                     "code", 100, "Code generation skipped for performance"))
  ELSE LevelFailed(F, 3, inp)

\* the continuation of the level that awaited the race
Resume(F, level, op, ok, data, inp) ==
  CASE level = 1 -> tryOptimalExtraction(F, op, ok, data, inp)
    [] level = 2 -> tryBalancedExtraction(F, op, ok, data, inp)
    [] level = 3 -> tryMinimalExtraction(F, op, ok, data, inp)

\* StreamingExtractor.buildSuccessResult / buildErrorResult
buildSuccessResult(F) ==
  [success |-> TRUE, figmaData |-> F.fd,
   performance |-> getPerformanceMetrics(F.tracker),
   warnings |-> F.warnings, errors |-> F.errors]

buildErrorResult(F) ==
  [success |-> FALSE, figmaData |-> F.fd,
   performance |-> getPerformanceMetrics(F.tracker),
   warnings |-> F.warnings, errors |-> F.errors]



(***************************************************************************)
(* The remote service and the inputs of one invocation.                    *)
(***************************************************************************)
\* How a client method ends when nothing stops it: it resolves with data,
\* rejects, never settles, or does either from one call to the next.
Dispositions == {"resolves", "rejects", "hangs", "flaky"}

CanResolve(op) == svc[op] \in {"resolves", "flaky"}
CanReject(op) == svc[op] \in {"rejects", "flaky"}

\* what getVariableDefinitions / getCodeConnectMap / getCode resolve with
\* (the output of parseVariablesResponse, parseCodeConnectResponse and
\* parseCodeResponse); an empty code text has no components
Response(op) ==
  CASE op = "variables"  -> [variables |-> svc.varsData]
    [] op = "components" -> [mappings |-> <<"comp1">>]
    [] op = "code"       -> [code |-> svc.codeText,
                             components |-> IF svc.codeText = "" THEN <<>>
                                            ELSE <<"TestComponent">>]

MethodOf(op) ==
  CASE op = "variables"  -> "getVariableDefinitions"
    [] op = "components" -> "getCodeConnectMap"
    [] op = "code"       -> "getCode"

\* pre-extracted figmaData objects: complete, fileId only, and without fileId
FigmaDataFull ==
  [fileId |-> <<"test-file-id">>, nodeId |-> <<"test-node-id">>,
   url |-> UrlFileNoNode, code |-> "pre-extracted code",
   components |-> <<"PreExtracted">>, variables |-> <<"color">>,
   codeConnectMap |-> <<"comp1">>]
FigmaDataMinimal == [fileId |-> <<"test-file-id">>, code |-> ""]
FigmaDataNoFileId == [test |-> "data"]

\* includeCode = TRUE also stands for an absent option (the code tests
\* `!== false`)
Inputs ==
  [url : Urls \cup {<<>>}, figmaData : {<<>>}, includeCode : BOOLEAN]
  \cup [url : {UrlDesignNode, <<>>}, figmaData : {<<FigmaDataNoFileId>>},
        includeCode : {TRUE}]
  \cup [url : {UrlDesignNode, UrlOtherHost, <<>>},
        figmaData : {<<FigmaDataFull>>, <<FigmaDataMinimal>>},
        includeCode : {TRUE}]

\* options.timeoutStrategy: z.enum(['graceful', 'partial', 'fail'])
Strategies == {"graceful", "partial", "fail"}

\* the inputs with options.timeoutStrategy given
StrategyInputs ==
  { [url |-> inp.url, figmaData |-> inp.figmaData,
     includeCode |-> inp.includeCode, timeoutStrategy |-> x] :
      inp \in Inputs, x \in Strategies }

\* faulty variant: pre-extracted data is used only when no url came with it
hasValidFigmaData_OnlyWithoutUrl(inp) ==
  inp.url = <<>> /\ inp.figmaData # <<>> /\ "fileId" \in DOMAIN inp.figmaData[1]

\* input.figmaData && typeof input.figmaData === 'object' && 'fileId' in input.figmaData
hasValidFigmaData(inp) ==
  inp.figmaData # <<>> /\ "fileId" \in DOMAIN inp.figmaData[1]

\* obj.f, <<>> when the property is absent
Prop(obj, f) == IF f \in DOMAIN obj THEN obj[f] ELSE <<>>

(***************************************************************************)
(* extractWithProgress as a process: each action runs the code from one    *)
(* await to the next.                                                      *)
(***************************************************************************)
Frame ==
  [fd |-> finalResult, warnings |-> warnings, errors |-> errors,
   progress |-> progress, tracker |-> tracker, next |-> <<>>, failed |-> FALSE]

\* Store a frame.  If the code returns, build the result; if it awaits a
\* client call, the call starts here: it reads the cache (c is the cache
\* left by the step) and races a timer unless the cache answered.
Commit(F0, c, inp) ==
  \E F \in {F0} :
    /\ finalResult' = F.fd
    /\ warnings' = F.warnings
    /\ errors' = F.errors
    /\ progress' = F.progress
    /\ tracker' = F.tracker
    /\ IF F.next = <<>>
       THEN /\ pc' = "done"
            /\ returned' = <<IF F.failed THEN buildErrorResult(F) ELSE buildSuccessResult(F)>>
            /\ race' = <<>>
            /\ cache' = c
            /\ invoked' = invoked
       ELSE LET call == F.next[1]
                key == CacheKey(call.op, inp.url, F.fd.nodeId)
                got == IF config.cacheEnabled
                       THEN getFromCache(c, key, now)
                       ELSE [data |-> <<>>, cache |-> c]
            IN  /\ pc' = "race"
                /\ returned' = returned
                /\ race' = <<[op |-> call.op, level |-> call.level,
                              call |-> IF got.data # <<>> THEN "cached" ELSE "inflight",
                              data |-> got.data]>>
                /\ cache' = got.cache
                /\ invoked' = Append(invoked, <<MethodOf(call.op), call.level>>)

\* extractWithProgress before its try block: the locals it starts with
InitialFrame(inp) ==
  [fd |-> [fileId |-> <<>>, nodeId |-> <<>>, url |-> inp.url,
           code |-> Null, components |-> <<>>, variables |-> <<>>,
           codeConnectMap |-> <<>>, metadata |-> <<>>],
   warnings |-> <<>>, errors |-> <<>>, progress |-> <<>>,
   tracker |-> TrackerStart, next |-> <<>>, failed |-> FALSE]

\* the branch for pre-extracted data: the closing event and the data copied
\* into finalResult
PassThrough(inp) ==
  LET figmaData == inp.figmaData[1]
      code == IF "code" \in DOMAIN figmaData /\ figmaData.code # ""
              THEN figmaData.code ELSE Null
  IN  [Emit(InitialFrame(inp), "complete", 100, "Using pre-extracted data") EXCEPT !.fd =
         [fileId |-> figmaData.fileId,
          nodeId |-> Prop(figmaData, "nodeId"),
          url |-> Prop(figmaData, "url"),
          code |-> code,
          components |-> Prop(figmaData, "components"),
          variables |-> Prop(figmaData, "variables"),
          codeConnectMap |-> Prop(figmaData, "codeConnectMap"),
          metadata |-> <<>>]]

\* the code after `await this.figmaClient.testConnection()` returned b, up
\* to the first race of level 1 or through the catch block
Connected(F, b, inp) ==
  LET parsed == parseFigmaUrl(inp.url)
  IN  IF ~b
      THEN CatchError(F, EServerUnavailable)
      ELSE IF ~parsed.ok
      THEN CatchError(F, EInvalidUrl)
      ELSE BeginOptimal([F EXCEPT !.fd.fileId = parsed.fileId,
                                  !.fd.nodeId = parsed.nodeId,
                                  !.fd.url = inp.url])

\* extractWithProgress, from its call to `await testConnection()` (or to
\* its return, in pass-through mode and without a url)
extractWithProgress(inp) ==
  /\ pc = "idle"
  /\ input' = <<inp>>
  /\ LET F0 == InitialFrame(inp)
     IN  IF hasValidFigmaData(inp)
         THEN /\ Commit(PassThrough(inp), cache, inp)
              /\ UNCHANGED isConnected
         ELSE IF inp.url = <<>>
         THEN /\ Commit(CatchError(F0, ENoInput), cache, inp)
              /\ UNCHANGED isConnected
         ELSE /\ finalResult' = F0.fd
              /\ warnings' = <<>>
              /\ errors' = <<>>
              /\ progress' = <<>>
              /\ tracker' = TrackerStart
              /\ pc' = "awaitConn"
              /\ invoked' = Append(invoked, <<"testConnection", 0>>)
              /\ UNCHANGED <<cache, race, returned, isConnected>>
  /\ UNCHANGED <<config, svc, now, req, lastRead, probe, sse, calc, overlap, background, settled, thrown, timers>>

\* `await this.figmaClient.testConnection()` returns b; the code runs on to
\* the first race of level 1, or into the catch block
testConnectionReturns(b) ==
  /\ pc = "awaitConn"
  /\ isConnected' = <<b>>
  /\ Commit(Connected(Frame, b, input[1]), cache, input[1])
  /\ UNCHANGED <<config, svc, now, req, lastRead, probe, sse, calc, overlap, input, background, settled, thrown, timers>>

\* the awaited client call found its result in the cache: its promise is
\* already resolved and wins the race
CacheAnswered ==
  /\ pc = "race"
  /\ LET r == race[1]
         inp == input[1]
     IN  /\ r.call = "cached"
         /\ settled' = Append(settled, <<r.op, r.level, "ok">>)
         /\ timers' = timers \cup {<<r.op, r.level>>}
         /\ Commit(Resume(Frame, r.level, r.op, TRUE, r.data[1], inp), cache, inp)
  /\ UNCHANGED <<config, svc, now, req, lastRead, probe, sse, calc, overlap, input, isConnected, background, thrown>>

\* the awaited client call resolves before the timer with the service's
\* response, which the call stores in the cache
CallResolved ==
  /\ pc = "race"
  /\ LET r == race[1]
         inp == input[1]
         key == CacheKey(r.op, inp.url, finalResult.nodeId)
         data == Response(r.op)
         c == IF config.cacheEnabled
              THEN setCache(cache, key, data, now, config.cacheTTL)
              ELSE cache
     IN  /\ r.call = "inflight"
         /\ CanResolve(r.op)
         /\ settled' = Append(settled, <<r.op, r.level, "ok">>)
         /\ timers' = timers \cup {<<r.op, r.level>>}
         /\ Commit(Resume(Frame, r.level, r.op, TRUE, data, inp), c, inp)
  /\ UNCHANGED <<config, svc, now, req, lastRead, probe, sse, calc, overlap, input, isConnected, background, thrown>>

\* the awaited client call rejects before the timer
CallRejected ==
  /\ pc = "race"
  /\ LET r == race[1]
         inp == input[1]
     IN  /\ r.call = "inflight"
         /\ CanReject(r.op)
         /\ settled' = Append(settled, <<r.op, r.level, "failed">>)
         /\ timers' = timers \cup {<<r.op, r.level>>}
         /\ Commit(Resume(Frame, r.level, r.op, FALSE, <<>>, inp), cache, inp)
  /\ UNCHANGED <<config, svc, now, req, lastRead, probe, sse, calc, overlap, input, isConnected, background, thrown>>

\* faulty variant: the call is awaited without a timer racing it
TimerFired_NeverArmed ==
  /\ pc = "race"
  /\ FALSE
  /\ UNCHANGED vars

\* the stage timer rejects the race; the client call keeps running (a call
\* that rejects or never settles afterwards changes nothing and stays in
\* `background`)
TimerFired ==
  /\ pc = "race"
  /\ LET r == race[1]
         inp == input[1]
     IN  /\ r.call = "inflight"
         /\ background' = background \cup {<<r.op, r.level>>}
         /\ settled' = Append(settled, <<r.op, r.level, "timeout">>)
         /\ Commit(Resume(Frame, r.level, r.op, FALSE, <<>>, inp), cache, inp)
  /\ UNCHANGED <<config, svc, now, req, lastRead, probe, sse, calc, overlap, input, isConnected, thrown, timers>>

\* a call that lost its race resolves later and stores its result
LateResolved(b) ==
  /\ b \in background
  /\ CanResolve(b[1])
  /\ background' = background \ {b}
  /\ cache' = IF config.cacheEnabled
              THEN setCache(cache, CacheKey(b[1], input[1].url, finalResult.nodeId),
                            Response(b[1]), now, config.cacheTTL)
              ELSE cache
  /\ UNCHANGED <<config, svc, now, req, lastRead, probe, sse, calc, overlap, pc, input, finalResult, warnings, errors,
                 progress, tracker, isConnected, race, invoked, settled, returned,
                 thrown, timers>>

\* the extractor before any invocation
ExtractorIdle ==
  /\ pc = "idle"
  /\ input = <<>>
  /\ finalResult = <<>>
  /\ warnings = <<>>
  /\ errors = <<>>
  /\ progress = <<>>
  /\ tracker = TrackerStart
  /\ isConnected = <<>>
  /\ race = <<>>
  /\ background = {}
  /\ invoked = <<>>
  /\ settled = <<>>
  /\ returned = <<>>
  /\ thrown = <<>>
  /\ timers = {}

\* no makeRequest call is running
RequestIdle ==
  req = [pc |-> "idle", attempt |-> 0, lastError |-> <<>>, waits |-> <<>>,
         response |-> <<>>, method |-> <<>>, surfaced |-> <<>>, met401 |-> FALSE,
         entry |-> <<>>]

\* no getFromCache call was made yet
NothingRead == lastRead = [read |-> <<>>, expired |-> {}]

\* no testConnection call is running
ProbeIdle ==
  probe = [pc |-> "idle", reader |-> "none", endpoint |-> <<>>, get |-> <<>>,
           first |-> <<>>, post |-> <<>>, result |-> <<>>, error |-> <<>>]

\* no makeRequestWithSSE attempt is running.  reader: the state of the
\* session stream's reader; signal: the AbortSignal.timeout of the SSE GET
\* ("armed" when aborting it errors the response body, as fetch specifies,
\* "detached" with a fetch whose body outlives the signal, as the mocked
\* fetch of the test-suite); timer: the per-call timeout of step 4; buffer:
\* the incomplete last line listenForResponse keeps; promise: how
\* responsePromise settled; outcome: what the attempt returned or threw;
\* statusCode: the statusCode of the FigmaClientError thrown; get, post: how
\* the two fetches settled; loop: whether listenForResponse is still
\* reading; sent: the message frames the server has written completely;
\* chunks: the chunks read in step 4
SSEIdle ==
  sse = [pc |-> "idle", reader |-> "none", signal |-> "none", timer |-> "none",
         buffer |-> <<"blank">>, promise |-> <<>>, outcome |-> <<>>,
         statusCode |-> <<>>, get |-> <<>>, post |-> <<>>,
         loop |-> "none", sent |-> <<>>, chunks |-> 0, requestId |-> 0]

Init ==
  /\ config \in [retryAttempts : {DefaultRetryAttempts}, cacheEnabled : BOOLEAN,
                 cacheTTL : {DefaultCacheTTL}]
  /\ svc \in [variables : Dispositions,
              components : Dispositions \ {"flaky"},
              code : Dispositions \ {"flaky"},
              varsData : {<<>>, <<"var1", "var2">>},
              codeText : {"", "export const TestComponent"}]
  /\ ~CanResolve("variables") => svc.varsData = <<>>
  /\ ~CanResolve("code") => svc.codeText = ""
  /\ now = 0
  /\ cache = <<>>
  /\ ExtractorIdle
  /\ RequestIdle
  /\ NothingRead
  /\ ProbeIdle
  /\ SSEIdle
  /\ calc = <<>>
  /\ overlap = OverlapIdle

Next ==
  \/ \E inp \in Inputs : extractWithProgress(inp)
  \/ \E b \in BOOLEAN : testConnectionReturns(b)
  \/ CacheAnswered
  \/ CallResolved
  \/ CallRejected
  \/ TimerFired
  \/ \E b \in background : LateResolved(b)

Spec == Init /\ [][Next]_vars

\* The timer of a race the call has settled was never cleared: it fires
\* when its timeout has passed and rejects a promise nobody awaits.
StaleTimerFired(t) ==
  /\ t \in timers
  /\ timers' = timers \ {t}
  /\ UNCHANGED <<config, svc, now, cache, req, lastRead, probe, sse, calc, overlap,
                 pc, input, finalResult, warnings, errors, progress, tracker,
                 isConnected, race, background, invoked, settled, returned,
                 thrown>>

NextTimers ==
  \/ Next
  \/ \E t \in timers : StaleTimerFired(t)

SpecTimers == Init /\ [][NextTimers]_vars

\* extractWithProgress called with options.timeoutStrategy set
NextStrategy ==
  \/ \E inp \in StrategyInputs : extractWithProgress(inp)
  \/ \E b \in BOOLEAN : testConnectionReturns(b)
  \/ CacheAnswered
  \/ CallResolved
  \/ CallRejected
  \/ TimerFired
  \/ \E b \in background : LateResolved(b)

SpecStrategy == Init /\ [][NextStrategy]_vars


\* The scheduling the event loop guarantees: testConnection() returns, an
\* armed stage timer fires, and the continuation of an already resolved
\* promise (a cache hit) runs.  Nothing is assumed of the client calls that
\* go to the network.  FairSpec explores the services under which a call
\* hangs forever or behaves differently from call to call.
InitLive ==
  /\ Init
  /\ config.cacheEnabled
  /\ svc.variables \in {"hangs", "flaky"}
  /\ svc.components \in {"hangs", "resolves"}
  /\ svc.code \in {"hangs", "rejects"}

FairSpec ==
  /\ InitLive
  /\ [][Next]_vars
  /\ WF_vars(\E b \in BOOLEAN : testConnectionReturns(b))
  /\ WF_vars(TimerFired)
  /\ WF_vars(CacheAnswered)

(***************************************************************************)
(* FigmaClient.makeRequest: retries with exponential backoff.              *)
(***************************************************************************)
MaxRetryAttempts == 5

extractorVars == <<pc, input, finalResult, warnings, errors, progress, tracker,
                   isConnected, race, background, invoked, settled, returned,
                   thrown, timers>>

\* a service no extractWithProgress invocation talks to
SilentService ==
  [variables |-> "hangs", components |-> "hangs", code |-> "hangs",
   varsData |-> <<>>, codeText |-> ""]

\* What one attempt meets on the wire: the SSE GET (answered 2xx, answered
\* 503, connection refused, or aborted by AbortSignal.timeout), whether the
\* first chunk carries an endpoint frame, the status of the request POST,
\* what the stream then delivers, and whether the response body is bound to
\* the abort signal of the GET ("armed") or outlives it ("detached").
Wire ==
  [get : {"ok", "401", "503", "refused", "aborted"},
   endpoint : BOOLEAN,
   post : {202, 200, 401, 500},
   stream : {"result", "error", "ended", "silent"},
   signal : {"armed", "detached"}]

Failure(code) == [ok |-> FALSE, value |-> code]

\* FigmaClient.makeRequestWithSSE: the response it resolves with or the code
\* of the error it throws
makeRequestWithSSE(w) ==
  IF w.get \in {"401", "503", "refused"} THEN Failure("SERVER_UNAVAILABLE")
  ELSE IF w.get = "aborted" THEN Failure("REQUEST_FAILED")
  ELSE IF ~w.endpoint THEN Failure("REQUEST_FAILED")
  ELSE IF w.post # 202 THEN Failure("UNEXPECTED_RESPONSE")
  ELSE IF w.stream = "silent" THEN
    IF w.signal = "armed" THEN Failure("REQUEST_FAILED") ELSE Failure("TIMEOUT")
  ELSE IF w.stream = "ended" THEN Failure("STREAM_ENDED")
  ELSE [ok |-> TRUE, value |-> w.stream]

Min(a, b) == IF a < b THEN a ELSE b

\* faulty variant: the delay keeps doubling
backoffDelay_Uncapped(attempt) == 1000 * 2^(attempt - 1)

\* the delay makeRequest computes after a failed attempt
backoffDelay(attempt) == Min(1000 * 2^(attempt - 1), 5000)

\* the attempt was answered 401, on the SSE GET or on the request POST
Met401(w) == w.get = "401" \/ (w.get = "ok" /\ w.endpoint /\ w.post = 401)

\* the code of the FigmaClientError a client method throws for a response
\* with an error field
MethodErrorCode(op) ==
  CASE op = "variables"  -> "GET_VARIABLES_FAILED"
    [] op = "components" -> "GET_CODE_CONNECT_FAILED"
    [] op = "code"       -> "GET_CODE_FAILED"

\* FigmaClient.handleError on what makeRequest threw: a FigmaClientError
\* keeps its code, anything else (the undefined lastError) is wrapped
handleError(e) == IF e = <<>> THEN "UNKNOWN_ERROR" ELSE e[1]

\* the selection the client method was called with
CallUrl == UrlDesignNode
CallNodeId == parseFigmaUrl(UrlDesignNode).nodeId

\* faulty variant: a response with an error field is parsed like a result
Surface_IgnoresErrorField(r) ==
  IF r.method = <<>> \/ r.pc \notin {"returned", "thrown"} THEN r
  ELSE [r EXCEPT !.surfaced =
          <<IF r.pc = "thrown" THEN Failure(handleError(r.lastError))
            ELSE [ok |-> TRUE, value |-> "parsed"]>>]

\* the part of getVariableDefinitions / getCodeConnectMap / getCode after
\* `await this.makeRequest(...)`: what the method returns or throws
Surface(r) ==
  IF r.method = <<>> \/ r.pc \notin {"returned", "thrown"} THEN r
  ELSE [r EXCEPT !.surfaced =
          <<IF r.pc = "thrown" THEN Failure(handleError(r.lastError))
            ELSE IF r.response[1] = "error" THEN Failure(MethodErrorCode(r.method[1]))
            ELSE [ok |-> TRUE, value |-> "parsed"]>>]

\* faulty variant: whatever the method ends with is stored
Stored_Always(r, c) ==
  IF r.surfaced # <<>> /\ config.cacheEnabled
  THEN setCache(c, CacheKey(r.method[1], CallUrl, CallNodeId),
                Response(r.method[1]), now, config.cacheTTL)
  ELSE c

\* ... and the cache it leaves: a parsed result is stored
Stored(r, c) ==
  IF r.surfaced # <<>> /\ r.surfaced[1].ok /\ config.cacheEnabled
  THEN setCache(c, CacheKey(r.method[1], CallUrl, CallNodeId),
                Response(r.method[1]), now, config.cacheTTL)
  ELSE c

\* makeRequest is called: the loop starts attempt 1, or, with retryAttempts
\* = 0, is not entered and the unassigned lastError is thrown
makeRequest ==
  /\ req.pc = "idle"
  /\ req' = IF 1 <= config.retryAttempts
            THEN [req EXCEPT !.pc = "attempt", !.attempt = 1]
            ELSE [req EXCEPT !.pc = "thrown"]
  /\ UNCHANGED <<config, svc, now, cache, lastRead, extractorVars, probe, sse, calc, overlap>>

\* getVariableDefinitions, getCodeConnectMap or getCode is called: with
\* cacheEnabled it reads the cache and returns a hit; otherwise it calls
\* makeRequest.  `entry` keeps the cache and the clock as they were at the call.
ClientMethod(op) ==
  /\ req.pc = "idle"
  /\ LET key == CacheKey(op, CallUrl, CallNodeId)
         got == IF config.cacheEnabled
                THEN getFromCache(cache, key, now)
                ELSE [data |-> <<>>, cache |-> cache]
         called == [req EXCEPT !.method = <<op>>,
                               !.entry = <<[cache |-> cache, now |-> now]>>]
     IN  /\ cache' = got.cache
         /\ req' = IF got.data # <<>>
                   THEN [called EXCEPT !.pc = "cached",
                                       !.surfaced = <<[ok |-> TRUE, value |-> "cached"]>>]
                   ELSE Surface(IF 1 <= config.retryAttempts
                                THEN [called EXCEPT !.pc = "attempt", !.attempt = 1]
                                ELSE [called EXCEPT !.pc = "thrown"])
  /\ UNCHANGED <<config, svc, now, lastRead, extractorVars, probe, sse, calc, overlap>>

\* the attempt's makeRequestWithSSE settles: its response is returned, or its
\* error is kept in lastError and either the backoff timer is armed or, after
\* the last attempt, the error is thrown; the calling client method goes on
AttemptSettled(w) ==
  /\ req.pc = "attempt"
  /\ LET o == makeRequestWithSSE(w)
         r == IF o.ok
              THEN [req EXCEPT !.pc = "returned", !.response = <<o.value>>,
                               !.met401 = Met401(w)]
              ELSE IF req.attempt < config.retryAttempts
              THEN [req EXCEPT !.pc = "delay", !.lastError = <<o.value>>,
                               !.waits = Append(@, backoffDelay(req.attempt)),
                               !.met401 = Met401(w)]
              ELSE [req EXCEPT !.pc = "thrown", !.lastError = <<o.value>>,
                               !.met401 = Met401(w)]
     IN  /\ req' = Surface(r)
         /\ cache' = Stored(Surface(r), cache)
  /\ UNCHANGED <<config, svc, now, lastRead, extractorVars, probe, sse, calc, overlap>>

\* the backoff timer fires after the delay it was armed with and the next
\* attempt starts
DelayElapsed ==
  /\ req.pc = "delay"
  /\ now' = now + req.waits[Len(req.waits)]
  /\ req' = [req EXCEPT !.pc = "attempt", !.attempt = @ + 1]
  /\ UNCHANGED <<config, svc, cache, lastRead, extractorVars, probe, sse, calc, overlap>>

\* The cache a call may find: empty, or holding one earlier result, stored
\* at the moment of the call (the clock's zero) or long enough before it to
\* have expired.
InitialCaches ==
  {<<>>} \cup
  {setCache(<<>>, CacheKey(op, CallUrl, CallNodeId), "earlier", t, DefaultCacheTTL) :
     op \in {"variables", "components", "code"}, t \in {0, -(DefaultCacheTTL + 1)}}

InitRetry ==
  /\ config \in [retryAttempts : 0..MaxRetryAttempts, cacheEnabled : BOOLEAN,
                 cacheTTL : {DefaultCacheTTL}]
  /\ svc = SilentService
  /\ now = 0
  /\ cache \in InitialCaches
  /\ ExtractorIdle
  /\ RequestIdle
  /\ NothingRead
  /\ ProbeIdle
  /\ SSEIdle
  /\ calc = <<>>
  /\ overlap = OverlapIdle

NextRetry ==
  \/ makeRequest
  \/ \E op \in {"variables", "components", "code"} : ClientMethod(op)
  \/ \E w \in Wire : AttemptSettled(w)
  \/ DelayElapsed

SpecRetry == InitRetry /\ [][NextRetry]_vars

(***************************************************************************)
(* The result cache under a running clock.                                 *)
(***************************************************************************)
MaxTime == 4
MaxTTL == 2
Keys == {"getVariables:a", "getCode:a"}
Values == {"v1", "v2"}

\* a client method stores a parsed response: setCache(key, data)
CacheWrite(key, data) ==
  /\ cache' = setCache(cache, key, data, now, config.cacheTTL)
  /\ lastRead' = [lastRead EXCEPT !.expired = @ \ {key}]
  /\ UNCHANGED <<config, svc, now, req, extractorVars, probe, sse, calc, overlap>>

\* a client method looks its key up: getFromCache(key).  lastRead keeps what
\* the call met (the entry's value and age), what it returned, and whether
\* the entry was still in the cache afterwards.
CacheRead(key) ==
  LET r == getFromCache(cache, key, now)
      present == key \in DOMAIN cache
      age == IF present THEN now - cache[key].timestamp ELSE 0
  IN  /\ cache' = r.cache
      /\ lastRead' =
           [read |-> <<[key |-> key,
                        stored |-> IF present THEN <<cache[key].data>> ELSE <<>>,
                        age |-> age,
                        data |-> r.data,
                        kept |-> key \in DOMAIN r.cache /\ r.cache[key] = cache[key]]>>,
            expired |-> IF present /\ age > cache[key].ttl
                        THEN lastRead.expired \cup {key}
                        ELSE lastRead.expired]
      /\ UNCHANGED <<config, svc, now, req, extractorVars, probe, sse, calc, overlap>>

\* FigmaClient.clearCache
clearCache ==
  /\ cache' = <<>>
  /\ UNCHANGED <<config, svc, now, req, lastRead, extractorVars, probe, sse, calc, overlap>>

\* Date.now() advances
Tick ==
  /\ now < MaxTime
  /\ now' = now + 1
  /\ UNCHANGED <<config, svc, cache, req, lastRead, extractorVars, probe, sse, calc, overlap>>

InitCache ==
  /\ config \in [retryAttempts : {DefaultRetryAttempts}, cacheEnabled : {TRUE},
                 cacheTTL : 1..MaxTTL]
  /\ svc = SilentService
  /\ now = 0
  /\ cache = <<>>
  /\ ExtractorIdle
  /\ RequestIdle
  /\ NothingRead
  /\ ProbeIdle
  /\ SSEIdle
  /\ calc = <<>>
  /\ overlap = OverlapIdle

NextCache ==
  \/ \E key \in Keys, data \in Values : CacheWrite(key, data)
  \/ \E key \in Keys : CacheRead(key)
  \/ clearCache
  \/ Tick

SpecCache == InitCache /\ [][NextCache]_vars

(***************************************************************************)
(* FigmaClient.testConnection: session negotiation and the probe request.  *)
(***************************************************************************)
\* How the SSE GET ends: answered 2xx with a body, answered 2xx without a
\* body, answered 401, 500 or 503, connection refused (fetch throws a
\* TypeError), aborted by AbortSignal.timeout
GetOutcomes == {"ok", "nobody", "401", "500", "503", "refused", "aborted"}

\* What the first read of the stream yields: a chunk with an endpoint frame,
\* one whose endpoint frame has an empty data line, one without endpoint
\* frame, the end of the stream, a read error
FirstChunks == {"endpoint", "emptyEndpoint", "noEndpoint", "ended", "readError"}

\* How a POST to the session endpoint ends: answered with a status and a
\* body text, connection refused, aborted
PostOutcomes ==
  [kind : {"answered"}, status : {202, 200, 401, 503, 500},
   body : {"Accepted", "", "json", "garbage"}]
  \cup [kind : {"refused", "aborted"}, status : {0}, body : {""}]

\* FigmaClient.makeSessionRequest: it returns a response or throws a
\* FigmaClientError with the given code
makeSessionRequest(p) ==
  IF p.kind = "refused" THEN Failure("SERVER_UNAVAILABLE")
  ELSE IF p.kind = "aborted" THEN Failure("SESSION_REQUEST_FAILED")
  ELSE IF p.status \notin 200..299
       THEN IF p.status = 503 THEN Failure("SERVER_UNAVAILABLE")
            ELSE IF p.status = 401 THEN Failure("AUTH_FAILED")
            ELSE Failure("HTTP_ERROR")
  ELSE IF p.status = 202 /\ p.body = "Accepted"
       THEN [ok |-> TRUE, value |-> "figma_connected"]
  ELSE IF p.body = "json" THEN [ok |-> TRUE, value |-> "json"]
  ELSE Failure("INVALID_RESPONSE")

\* faulty variant: testConnection has no try/catch around the probe request
testConnectionSettles_Rethrows(pr, o) ==
  IF o.ok
  THEN [pr EXCEPT !.pc = "returned", !.result = <<o.value>>]
  ELSE [pr EXCEPT !.pc = "thrown", !.error = <<o.value>>]

\* testConnection's try/catch: what it returns when the code inside returned
\* o.value (o.ok) or threw
testConnectionSettles(pr, o) ==
  IF o.ok
  THEN [pr EXCEPT !.pc = "returned", !.result = <<o.value>>]
  ELSE [pr EXCEPT !.pc = "returned", !.result = <<FALSE>>]

\* testConnection is called: establishSSEConnection sends the GET
testConnection ==
  /\ probe.pc = "idle"
  /\ sse.pc = "idle"
  /\ probe' = [probe EXCEPT !.pc = "get"]
  /\ UNCHANGED <<config, svc, now, cache, req, lastRead, sse, calc, overlap, extractorVars>>

\* establishSSEConnection: the GET settles.  Every failure is caught inside
\* establishSSEConnection, which returns null, and testConnection returns
\* false.
ProbeGetSettled(g) ==
  /\ probe.pc = "get"
  /\ probe' =
       IF g = "ok"
       THEN [probe EXCEPT !.pc = "read", !.get = <<g>>, !.reader = "open"]
       ELSE testConnectionSettles([probe EXCEPT !.get = <<g>>],
                                  [ok |-> TRUE, value |-> FALSE])
  /\ UNCHANGED <<config, svc, now, cache, req, lastRead, sse, calc, overlap, extractorVars>>

\* establishSSEConnection: the first read settles; the reader is cancelled
\* and the endpoint found, or null, is returned; with an endpoint
\* testConnection sends the probe POST
ProbeFirstRead(c) ==
  /\ probe.pc = "read"
  /\ probe' =
       IF c = "endpoint"
       THEN [probe EXCEPT !.pc = "post", !.first = <<c>>, !.reader = "cancelled",
                          !.endpoint = <<"/messages?sessionId=1">>]
       ELSE testConnectionSettles(
              [probe EXCEPT !.first = <<c>>,
                            !.reader = CASE c = "ended" -> "ended"
                                         [] c = "readError" -> "errored"
                                         [] OTHER -> "cancelled"],
              [ok |-> TRUE, value |-> FALSE])
  /\ UNCHANGED <<config, svc, now, cache, req, lastRead, sse, calc, overlap, extractorVars>>

\* the probe POST settles: makeSessionRequest returns or throws
ProbePostSettled(p) ==
  /\ probe.pc = "post"
  /\ LET o == makeSessionRequest(p)
     IN  probe' = testConnectionSettles(
                    [probe EXCEPT !.post = <<p>>],
                    IF o.ok THEN [ok |-> TRUE, value |-> TRUE] ELSE o)
  /\ UNCHANGED <<config, svc, now, cache, req, lastRead, sse, calc, overlap, extractorVars>>

(***************************************************************************)
(* FigmaClient.makeRequestWithSSE, one attempt step by step.  A chunk of   *)
(* the stream is the sequence of lines chunk.split('\n') yields; its last   *)
(* element is the incomplete rest, <<"blank">> when the chunk ends with a   *)
(* newline.  A line is <<"event">> ('event: message'), <<"blank">>,         *)
(* <<"other">>, <<"data", x>> ('data: ' and the text of x), or the two      *)
(* parts <<"head", x>>, <<"tail", x>> of a data line cut by a chunk border. *)
(***************************************************************************)
MaxChunks == 3

\* this.requestId before the attempt: a new client, or one that has sent
\* eight requests
PriorRequestIds == {0, 8}

\* request.id of the attempt (++this.requestId)
RequestId == sse.requestId

\* JSON values as tokens; the ones JavaScript treats as false in `a || b`
Falsy == {"null", "false", "0", ""}
Truthy(v) == v \notin Falsy

\* the JSON texts a data line carries: a result with the request's id, an
\* error with another id, a result that is null, a notification, and a text
\* JSON.parse rejects.  An absent field is <<>>, a present one <<value>>.
Payloads ==
  { [json |-> TRUE,  id |-> 1, result |-> <<"r1">>, error |-> <<>>],
    [json |-> TRUE,  id |-> 9, result |-> <<>>, error |-> <<"e1">>],
    [json |-> TRUE,  id |-> 1, result |-> <<"null">>, error |-> <<>>],
    [json |-> TRUE,  id |-> 0, result |-> <<>>, error |-> <<>>],
    [json |-> FALSE, id |-> 0, result |-> <<>>, error |-> <<>>] }

Blank == <<"blank">>
WholeFrame(x) == <<<<"event">>, <<"data", x>>, Blank, Blank>>
FrameHead(x)  == <<<<"event">>, <<"head", x>>>>
FrameTail(x)  == <<<<"tail", x>>, Blank, Blank>>
Comment       == <<<<"other">>, Blank, Blank>>

\* the chunks the stream may deliver next: whole frames, one frame after
\* another, a comment, or a frame whose data line continues in the next chunk
ChunksAfter(buffer) ==
  IF buffer[1] = "head"
  THEN {FrameTail(buffer[2])}
  ELSE {WholeFrame(x) : x \in Payloads}
       \cup {WholeFrame(x) \o WholeFrame(y) : x, y \in Payloads}
       \cup {FrameHead(x) : x \in Payloads}
       \cup {Comment}

\* the message frames a chunk completes, in stream order
FramesCompleted(chunk) ==
  LET d == SelectSeq(chunk, LAMBDA l : l[1] \in {"data", "tail"})
  IN  [i \in 1..Len(d) |-> d[i][2]]

\* buffer += chunk; lines = buffer.split('\n')
Lines(buffer, chunk) ==
  LET first == IF buffer = Blank THEN chunk[1]
               ELSE IF buffer[1] = "head" /\ chunk[1] = <<"tail", buffer[2]>>
               THEN <<"data", buffer[2]>>
               ELSE IF chunk[1] = Blank THEN buffer
               ELSE <<"other">>
  IN  <<first>> \o Tail(chunk)

\* responseData.result || responseData.error, for a line JSON.parse accepts
Qualifies(x) ==
  /\ x.json
  /\ \/ x.result # <<>> /\ Truthy(x.result[1])
     \/ x.error # <<>> /\ Truthy(x.error[1])

\* the while loop skipping empty lines: the index it stops at
RECURSIVE SkipBlank(_, _)
SkipBlank(lines, i) ==
  IF i < Len(lines) /\ lines[i] = Blank THEN SkipBlank(lines, i + 1) ELSE i

\* faulty variant: the accepted frame is returned with the id it carried
RECURSIVE Scan_KeepsFrameId(_, _)
Scan_KeepsFrameId(lines, i) ==
  IF i >= Len(lines) THEN <<>>
  ELSE IF lines[i] = <<"event">>
  THEN LET j == SkipBlank(lines, i + 1)
       IN  IF j < Len(lines) /\ lines[j][1] = "data" /\ Qualifies(lines[j][2])
           THEN <<lines[j][2]>>
           ELSE Scan_KeepsFrameId(lines, j + 1)
  ELSE Scan_KeepsFrameId(lines, i + 1)

\* the for loop of listenForResponse over lines[i .. length - 2] (indices
\* from 1 here): <<response>> when a frame is accepted, <<>> otherwise
RECURSIVE Scan(_, _)
Scan(lines, i) ==
  IF i >= Len(lines) THEN <<>>
  ELSE IF lines[i] = <<"event">>
  THEN LET j == SkipBlank(lines, i + 1)
       IN  IF j < Len(lines) /\ lines[j][1] = "data" /\ Qualifies(lines[j][2])
           THEN <<[lines[j][2] EXCEPT !.id = RequestId]>>
           ELSE Scan(lines, j + 1)
  ELSE Scan(lines, i + 1)

\* resolve / reject of responsePromise: only the first call settles it, and
\* the awaiting makeRequestWithSSE then returns or throws
Settle(s, o) ==
  IF s.promise # <<>> THEN s
  ELSE [s EXCEPT !.promise = <<o>>, !.outcome = <<o>>,
                 !.pc = IF o.ok THEN "returned" ELSE "thrown"]

\* an error thrown inside the try block reaches the caller through the catch
Throw(s, code) == [s EXCEPT !.pc = "thrown", !.outcome = <<Failure(code)>>]

\* ... a FigmaClientError with a statusCode
ThrowStatus(s, code, status) ==
  [Throw(s, code) EXCEPT !.statusCode = <<status>>]

sseRest == <<config, svc, now, cache, req, lastRead, probe, calc, overlap, extractorVars>>

\* makeRequestWithSSE is called: step 1 sends the GET with its abort signal.
\* One client call at a time is followed; a testConnection and an attempt
\* share no state.
SSEAttempt ==
  /\ sse.pc = "idle"
  /\ probe.pc = "idle"
  /\ \E sig \in {"armed", "detached"}, prior \in PriorRequestIds :
       sse' = [sse EXCEPT !.pc = "get", !.signal = sig, !.requestId = prior + 1]
  /\ UNCHANGED sseRest

\* the GET settles: any non-2xx answer is a FigmaServerUnavailableError
SSEGetSettled(g) ==
  /\ sse.pc = "get"
  /\ LET s == [sse EXCEPT !.get = <<g>>]
     IN  sse' = CASE g = "ok" -> [s EXCEPT !.pc = "first", !.reader = "open"]
                  [] g = "nobody" -> Throw(s, "REQUEST_FAILED")
                  [] g \in {"401", "500", "503"} ->
                       ThrowStatus(s, "SERVER_UNAVAILABLE", 503)
                  [] g = "refused" -> ThrowStatus(s, "SERVER_UNAVAILABLE", 503)
                  [] g = "aborted" -> Throw(s, "REQUEST_FAILED")
  /\ UNCHANGED sseRest

\* step 2: the first read of the stream
SSEFirstRead(c) ==
  /\ sse.pc = "first"
  /\ sse' = CASE c = "endpoint" -> [sse EXCEPT !.pc = "post"]
              [] c \in {"emptyEndpoint", "noEndpoint"} ->
                   Throw([sse EXCEPT !.reader = "cancelled"], "REQUEST_FAILED")
              [] c = "ended" -> Throw([sse EXCEPT !.reader = "ended"], "REQUEST_FAILED")
              [] c = "readError" ->
                   Throw([sse EXCEPT !.reader = "errored"], "REQUEST_FAILED")
  /\ UNCHANGED sseRest

\* step 3: the POST to the session endpoint settles; its body is not read.
\* 202 arms the timer and starts listenForResponse, whose first read rejects
\* at once if the GET's signal has errored the stream meanwhile
SSEPostSettled(p) ==
  /\ sse.pc = "post"
  /\ LET s == [sse EXCEPT !.post = <<p>>]
     IN  sse' = CASE p.kind = "refused" -> ThrowStatus(s, "SERVER_UNAVAILABLE", 503)
                  [] p.kind = "aborted" -> Throw(s, "REQUEST_FAILED")
                  [] p.kind = "answered" /\ p.status # 202 ->
                       ThrowStatus([s EXCEPT !.reader = IF @ = "open" THEN "cancelled" ELSE @],
                                   "UNEXPECTED_RESPONSE", p.status)
                  [] p.kind = "answered" /\ p.status = 202 ->
                       IF s.reader = "errored"
                       THEN Settle([s EXCEPT !.pc = "listen", !.timer = "cleared",
                                             !.loop = "stopped"],
                                   Failure("REQUEST_FAILED"))
                       ELSE [s EXCEPT !.pc = "listen", !.timer = "armed",
                                      !.loop = "reading"]
  /\ UNCHANGED sseRest

\* step 4: reader.read() yields a chunk
SSEChunkRead(chunk) ==
  /\ sse.loop = "reading"
  /\ sse.reader = "open"
  /\ sse.chunks < MaxChunks
  /\ LET lines == Lines(sse.buffer, chunk)
         hit == Scan(lines, 1)
         s1 == [sse EXCEPT !.chunks = @ + 1,
                           !.sent = @ \o FramesCompleted(chunk)]
     IN  sse' = IF hit # <<>>
                THEN Settle([s1 EXCEPT !.timer = "cleared", !.reader = "cancelled",
                                       !.loop = "stopped"],
                            [ok |-> TRUE, value |-> hit[1]])
                ELSE [s1 EXCEPT !.buffer = lines[Len(lines)]]
  /\ UNCHANGED sseRest

\* step 4: reader.read() yields done: the server closed the stream, or the
\* reader was cancelled by the timer
SSEReadDone ==
  /\ sse.loop = "reading"
  /\ sse.reader \in {"open", "cancelled"}
  /\ sse' = Settle([sse EXCEPT !.timer = IF @ = "armed" THEN "cleared" ELSE @,
                               !.reader = IF @ = "open" THEN "ended" ELSE @,
                               !.loop = "stopped"],
                   Failure("STREAM_ENDED"))
  /\ UNCHANGED sseRest

\* step 4: reader.read() rejects
SSEReadFailed ==
  /\ sse.loop = "reading"
  /\ sse.reader = "open"
  /\ sse' = Settle([sse EXCEPT !.timer = "cleared", !.reader = "cancelled",
                               !.loop = "stopped"],
                   Failure("REQUEST_FAILED"))
  /\ UNCHANGED sseRest

\* the GET's AbortSignal.timeout(config.timeout) fires after the response
\* arrived: the body stream is errored.  A pending read rejects with the
\* TimeoutError: in step 2 the catch wraps it, in step 4 listenForResponse
\* clears the timer and rejects with it; during the POST nobody is reading.
SSESignalFired ==
  /\ sse.signal = "armed"
  /\ sse.pc \in {"first", "post", "listen"}
  /\ sse.pc = "listen" => sse.loop = "reading" /\ sse.reader = "open"
  /\ LET s == [sse EXCEPT !.signal = "fired"]
     IN  sse' = CASE sse.pc = "first" ->
                       Throw([s EXCEPT !.reader = "errored"], "REQUEST_FAILED")
                  [] sse.pc = "post" -> [s EXCEPT !.reader = "errored"]
                  [] sse.pc = "listen" ->
                       Settle([s EXCEPT !.timer = "cleared", !.reader = "cancelled",
                                        !.loop = "stopped"],
                              Failure("REQUEST_FAILED"))
  /\ UNCHANGED sseRest

\* the per-call timer fires: it cancels the reader and rejects.  It was
\* armed after the GET's signal with the same config.timeout, so an armed
\* signal fires first.
SSETimerFired ==
  /\ sse.timer = "armed"
  /\ sse.signal # "armed"
  /\ sse' = Settle([sse EXCEPT !.timer = "fired", !.reader = "cancelled"],
                   Failure("TIMEOUT"))
  /\ UNCHANGED sseRest

InitClient ==
  /\ config \in [retryAttempts : {DefaultRetryAttempts}, cacheEnabled : {TRUE},
                 cacheTTL : {DefaultCacheTTL}]
  /\ svc = SilentService
  /\ now = 0
  /\ cache = <<>>
  /\ ExtractorIdle
  /\ RequestIdle
  /\ NothingRead
  /\ ProbeIdle
  /\ SSEIdle
  /\ calc = <<>>
  /\ overlap = OverlapIdle

NextClient ==
  \/ testConnection
  \/ \E g \in GetOutcomes : ProbeGetSettled(g)
  \/ \E c \in FirstChunks : ProbeFirstRead(c)
  \/ \E p \in PostOutcomes : ProbePostSettled(p)
  \/ SSEAttempt
  \/ \E g \in GetOutcomes : SSEGetSettled(g)
  \/ \E c \in FirstChunks : SSEFirstRead(c)
  \/ \E p \in PostOutcomes : SSEPostSettled(p)
  \/ \E chunk \in ChunksAfter(sse.buffer) : SSEChunkRead(chunk)
  \/ SSEReadDone
  \/ SSEReadFailed
  \/ SSESignalFired
  \/ SSETimerFired

SpecClient == InitClient /\ [][NextClient]_vars

(***************************************************************************)
(* StreamingExtractor.getStageTimeouts.                                    *)
(***************************************************************************)
\* the range the input schema allows for options.maxWaitTime, in ms
MinWaitTime == 5000
MaxWaitTime == 60000

\* https://figma.com/file/123/test?node-id=12-34
UrlSimpleNode ==
  <<"https://", "figma.com/", "file/", "123", "/", "test", "?", "node-id=",
    "12", "-", "34">>

\* faulty variant: a complex layout gets the default budget
getStageTimeouts_NoReduction(url, maxWaitTime) ==
  LET m == IF maxWaitTime = <<>> \/ maxWaitTime = <<0>> THEN 15000 ELSE maxWaitTime[1]
  IN  [variables  |-> Min(10 * 5000, 3 * m),
       components |-> Min(10 * 10000, 6 * m),
       code       |-> Min(10 * 15000, 10 * m)]

\* StreamingExtractor.getStageTimeouts for input.url and
\* input.options.maxWaitTime (<<>> when absent).  The timeouts are in tenths
\* of a millisecond, so that maxWaitTime * 0.2, * 0.3, * 0.5 and * 0.6 are
\* exact whole numbers.
getStageTimeouts(url, maxWaitTime) ==
  LET m == IF maxWaitTime = <<>> \/ maxWaitTime = <<0>> THEN 15000 ELSE maxWaitTime[1]
  IN  IF detectComplexLayout(url)
      THEN [variables  |-> Min(10 * 3000, 2 * m),
            components |-> Min(10 * 5000, 3 * m),
            code       |-> Min(10 * 8000, 5 * m)]
      ELSE [variables  |-> Min(10 * 5000, 3 * m),
            components |-> Min(10 * 10000, 6 * m),
            code       |-> Min(10 * 15000, 10 * m)]

\* tryBalancedExtraction's fastTimeouts and the timeout tryMinimalExtraction
\* passes to safeExtractVariables, in tenths of a millisecond
fastTimeouts == [variables |-> 10 * 3000, components |-> 10 * 5000]
MinimalTimeout == 10 * 2000

\* the timeout each level arms for each stage it races: level 1 uses
\* getStageTimeouts, levels 2 and 3 their own numbers
LevelTimeouts(url, maxWaitTime) ==
  [level \in 1..3 |->
     CASE level = 1 -> getStageTimeouts(url, maxWaitTime)
       [] level = 2 -> fastTimeouts
       [] level = 3 -> [variables |-> MinimalTimeout]]

\* getStageTimeouts is called for an input with the given url and
\* maxWaitTime, and once more for the other url with the same options; the
\* timeouts of all levels for that input are kept with it
TimeoutsComputed(url, maxWaitTime) ==
  /\ Len(calc) < 2
  /\ calc # <<>> => /\ calc[1].arg.maxWaitTime = maxWaitTime
                    /\ calc[1].arg.url # url
  /\ calc' = Append(calc, [fn |-> "getStageTimeouts",
                           arg |-> [url |-> url, maxWaitTime |-> maxWaitTime],
                           value |-> getStageTimeouts(url, maxWaitTime),
                           levels |-> LevelTimeouts(url, maxWaitTime)])
  /\ UNCHANGED <<config, svc, now, cache, req, lastRead, probe, sse, overlap, extractorVars>>

InitTimeouts == InitClient

\* the option as the tool's schema admits it: absent, or MinWaitTime..MaxWaitTime
WaitTimes ==
  IF calc = <<>>
  THEN {<<>>} \cup {<<w>> : w \in MinWaitTime..MaxWaitTime}
  ELSE {calc[1].arg.maxWaitTime}

NextTimeouts ==
  \E url \in {UrlComplex, UrlSimpleNode} :
    \E m \in WaitTimes :
      TimeoutsComputed(url, m)

SpecTimeouts == InitTimeouts /\ [][NextTimeouts]_vars

(***************************************************************************)
(* ProgressTracker: the counters and getEfficiencyScore.  start() is       *)
(* called when the clock `now` reads 0, so totalDuration = now.  A score   *)
(* is kept in thousandths of a point, which makes (totalTime - 15000) /    *)
(* 1000 an integer for every duration in milliseconds.                     *)
(***************************************************************************)
MaxDuration == 50000
TickStep == 500
MaxRetries == 21
MaxCacheHits == 3
Stages == {"variables", "components", "code"}

Max(a, b) == IF a > b THEN a ELSE b

\* a faulty variant: the time penalty is not capped at 30 points
getEfficiencyScore_UncappedTimePenalty(metrics) ==
  LET totalTime == metrics.totalDuration
      s1 == IF totalTime > 15000 THEN 100000 - (totalTime - 15000) ELSE 100000
      s2 == IF metrics.timeoutOccurred THEN s1 - 20000 ELSE s1
      s3 == s2 - metrics.retryAttempts * 5000
      s4 == s3 + metrics.cacheHits * 2000
  IN  Max(0, Min(100000, s4))

\* ProgressTracker.getEfficiencyScore, from the metrics it reads
getEfficiencyScore(metrics) ==
  LET totalTime == metrics.totalDuration
      s1 == IF totalTime > 15000
            THEN 100000 - Min(30000, totalTime - 15000)
            ELSE 100000
      s2 == IF metrics.timeoutOccurred THEN s1 - 20000 ELSE s1
      s3 == s2 - metrics.retryAttempts * 5000
      s4 == s3 + metrics.cacheHits * 2000
  IN  Max(0, Min(100000, s4))

\* ProgressTracker.getPerformanceMetrics with totalDuration = now - startTime
TimedMetrics == [totalDuration |-> now] @@ getPerformanceMetrics(tracker)

trackerRest == <<pc, input, finalResult, warnings, errors, progress,
                 isConnected, race, background, invoked, settled, returned,
                 thrown, timers>>

recordTimeout(stage) ==
  /\ calc = <<>>
  /\ tracker' = [tracker EXCEPT !.timeoutOccurred = TRUE,
                                !.timeoutStage = <<stage>>]
  /\ UNCHANGED <<config, svc, now, cache, req, lastRead, probe, sse, calc, overlap,
                 trackerRest>>

recordCacheHit ==
  /\ calc = <<>>
  /\ tracker.cacheHits < MaxCacheHits
  /\ tracker' = [tracker EXCEPT !.cacheHits = @ + 1]
  /\ UNCHANGED <<config, svc, now, cache, req, lastRead, probe, sse, calc, overlap,
                 trackerRest>>

recordRetryAttempt ==
  /\ calc = <<>>
  /\ tracker.retryAttempts < MaxRetries
  /\ tracker' = [tracker EXCEPT !.retryAttempts = @ + 1]
  /\ UNCHANGED <<config, svc, now, cache, req, lastRead, probe, sse, calc, overlap,
                 trackerRest>>

\* Date.now() advances while the extraction runs
TrackerTick ==
  /\ calc = <<>>
  /\ now + TickStep <= MaxDuration
  /\ now' = now + TickStep
  /\ UNCHANGED <<config, svc, cache, req, lastRead, probe, sse, calc, overlap,
                 extractorVars>>

\* getEfficiencyScore is called; the metrics it read are kept with the score
ScoreComputed ==
  /\ calc = <<>>
  /\ calc' = <<[fn |-> "getEfficiencyScore", arg |-> TimedMetrics,
                value |-> getEfficiencyScore(TimedMetrics)]>>
  /\ UNCHANGED <<config, svc, now, cache, req, lastRead, probe, sse, overlap,
                 extractorVars>>

InitTracker == InitClient

NextTracker ==
  \/ \E stage \in Stages : recordTimeout(stage)
  \/ recordCacheHit
  \/ recordRetryAttempt
  \/ TrackerTick
  \/ ScoreComputed

SpecTracker == InitTracker /\ [][NextTracker]_vars

(***************************************************************************)
(* Two extractWithProgress invocations on one StreamingExtractor.  Each    *)
(* is given a url, and the service answers every call before its stage     *)
(* timer, so an invocation goes through level 1 only; each action runs     *)
(* one invocation from one await to the next, on the extractor's single    *)
(* progressTracker.                                                        *)
(***************************************************************************)
MaxClock == 4

overlapRest == <<config, svc, cache, req, lastRead, probe, sse, calc,
                 extractorVars>>

\* onProgress(this.progressTracker.updateStage(stage, percentage, ...)) in
\* invocation i; the same call is made on the invocation's own tracker
Report(S, i, stage, percentage) ==
  LET c == S.calls[i]
  IN  [progressTracker |-> updateStageAt(S.progressTracker, stage, percentage, now),
       calls |-> [S.calls EXCEPT ![i] =
         [c EXCEPT
            !.events = Append(@, ProgressEventAt(S.progressTracker, stage, percentage, now)),
            !.own = updateStageAt(c.own, stage, percentage, now),
            !.ownEvents = Append(@, ProgressEventAt(c.own, stage, percentage, now))]]]

\* buildSuccessResult / buildErrorResult: the invocation returns with
\* progressTracker.getPerformanceMetrics()
Return(S, i) ==
  [S EXCEPT !.calls[i].pc = "done",
            !.calls[i].performance = <<getPerformanceMetricsAt(S.progressTracker, now)>>,
            !.calls[i].ownPerformance = <<getPerformanceMetricsAt(S.calls[i].own, now)>>]

\* extractWithProgress is called: progressTracker.start(), then the code
\* runs to `await testConnection()`
OverlapInvoke(i) ==
  /\ overlap.calls[i].pc = "idle"
  /\ overlap' = [overlap EXCEPT !.progressTracker = startAt(now),
                                !.calls[i].own = startAt(now),
                                !.calls[i].pc = "awaitConn"]
  /\ UNCHANGED <<now, overlapRest>>

\* testConnection() has returned: level 1 begins and awaits the variables
\* race, or the catch block reports the failure and returns
OverlapConnected(i, connected) ==
  /\ overlap.calls[i].pc = "awaitConn"
  /\ overlap' =
       IF connected
       THEN [Report(overlap, i, "variables", 0) EXCEPT !.calls[i].pc = "variables"]
       ELSE Return(Report(overlap, i, "complete", 0), i)
  /\ UNCHANGED <<now, overlapRest>>

\* the race invocation i awaits is won by the client call: the level goes on
\* to the next stage, and after the code stage the invocation returns
OverlapSettled(i) ==
  /\ overlap.calls[i].pc \in {"variables", "components", "code"}
  /\ overlap' =
       CASE overlap.calls[i].pc = "variables" ->
              [Report(Report(overlap, i, "variables", 100), i, "components", 0)
                 EXCEPT !.calls[i].pc = "components"]
         [] overlap.calls[i].pc = "components" ->
              [Report(Report(overlap, i, "components", 100), i, "code", 0)
                 EXCEPT !.calls[i].pc = "code"]
         [] overlap.calls[i].pc = "code" ->
              Return(Report(Report(overlap, i, "code", 100), i, "complete", 100), i)
  /\ UNCHANGED <<now, overlapRest>>

\* Date.now() advances
OverlapTick ==
  /\ now < MaxClock
  /\ now' = now + 1
  /\ UNCHANGED <<overlap, overlapRest>>

\* Date.now() reads a positive number when the first invocation is made
InitOverlap ==
  /\ config = [retryAttempts |-> DefaultRetryAttempts, cacheEnabled |-> TRUE,
               cacheTTL |-> DefaultCacheTTL]
  /\ svc = SilentService
  /\ now = 1
  /\ cache = <<>>
  /\ ExtractorIdle
  /\ RequestIdle
  /\ NothingRead
  /\ ProbeIdle
  /\ SSEIdle
  /\ calc = <<>>
  /\ overlap = OverlapIdle

NextOverlap ==
  \/ \E i \in Invocations : OverlapInvoke(i)
  \/ \E i \in Invocations : \E connected \in BOOLEAN : OverlapConnected(i, connected)
  \/ \E i \in Invocations : OverlapSettled(i)
  \/ OverlapTick

SpecOverlap == InitOverlap /\ [][NextOverlap]_vars

(***************************************************************************)
(* Properties of extractWithProgress.                                      *)
(***************************************************************************)
Done == pc = "done"
Result == returned[1]
Input == input[1]
CarriesFileId == Input.figmaData # <<>> /\ "fileId" \in DOMAIN Input.figmaData[1]
Standalone == input # <<>> /\ ~CarriesFileId
ValidUrl == Input.url # <<>> /\ parseFigmaUrl(Input.url).ok
Outcomes(op) == {settled[i][3] : i \in {j \in 1..Len(settled) : settled[j][1] = op}}
AllRacesLost == \A i \in 1..Len(settled) : settled[i][3] # "ok"
LevelsAttempted == {invoked[i][2] : i \in 1..Len(invoked)} \ {0}
Elems(q) == {q[i] : i \in 1..Len(q)}

\* C1 (as claimed): a standalone invocation on a valid Figma URL returns
\* success = true and the URL's non-empty file id, whatever testConnection
\* and the three client calls do.
C1_Original ==
  (Done /\ Standalone /\ ValidUrl) =>
    /\ returned # <<>>
    /\ Result.success
    /\ Result.figmaData.fileId = parseFigmaUrl(Input.url).fileId
    /\ Result.figmaData.fileId # <<>>

\* C1 (amended): a standalone invocation on a valid Figma URL whose
\* connection test returned true returns success = true and the URL's
\* non-empty file id, whether each client call succeeds, fails or times out.
C1_Amended ==
  (Done /\ Standalone /\ ValidUrl /\ isConnected = <<TRUE>>) =>
    /\ returned # <<>>
    /\ Result.success
    /\ Result.figmaData.fileId = parseFigmaUrl(Input.url).fileId
    /\ Result.figmaData.fileId # <<>>

\* every network call of a connected invocation failed or timed out, and it
\* still returned success with the file id
C1_Witness ==
  /\ Done /\ Standalone /\ ValidUrl /\ isConnected = <<TRUE>>
  /\ Outcomes("variables") = {"failed", "timeout"}
  /\ Result.success
  /\ Result.figmaData.fileId = <<"5h7RH37bjkXERjpF5dhtFX">>

C3_Rejects ==
  (Done /\ Standalone /\ isConnected = <<FALSE>>) =>
    /\ thrown = <<EServerUnavailable>>
    /\ returned = <<>>

\* C4: with figmaData carrying a fileId, no client method is invoked and the
\* result is success = true with the supplied data (absent fields default
\* to null code and empty lists), with or without a url.
C4_PassThrough ==
  (input # <<>> /\ CarriesFileId) =>
    /\ Done
    /\ invoked = <<>> /\ settled = <<>> /\ background = {} /\ isConnected = <<>>
    /\ returned # <<>>
    /\ Result.success
    /\ LET fd == Input.figmaData[1]
           out == Result.figmaData
       IN  /\ out.fileId = fd.fileId
           /\ out.nodeId = Prop(fd, "nodeId")
           /\ out.url = Prop(fd, "url")
           /\ out.variables = Prop(fd, "variables")
           /\ out.components = Prop(fd, "components")
           /\ out.codeConnectMap = Prop(fd, "codeConnectMap")
           /\ out.code = IF "code" \in DOMAIN fd /\ fd.code # "" THEN fd.code ELSE Null

\* pre-extracted data came together with a url and was returned untouched
C4_Witness ==
  /\ Done
  /\ input # <<>>
  /\ Input.figmaData = <<FigmaDataFull>>
  /\ Input.url = UrlDesignNode
  /\ Result.figmaData.code = "pre-extracted code"
  /\ invoked = <<>>

\* C5: connected standalone invocation in which every race was lost: the
\* result is the emergency level's.
C5_Emergency ==
  (Done /\ Standalone /\ ValidUrl /\ isConnected = <<TRUE>> /\ AllRacesLost) =>
    /\ returned # <<>>
    /\ Result.success
    /\ Result.figmaData.fileId = parseFigmaUrl(Input.url).fileId
    /\ Result.figmaData.variables = <<>>
    /\ Result.figmaData.components = <<>>
    /\ Result.figmaData.codeConnectMap = <<>>
    /\ Result.figmaData.code = Null
    /\ Result.figmaData.metadata # <<>>
    /\ Result.figmaData.metadata[1].extractionMethod = "emergency_fallback"

\* the three variables races of levels 1, 2, 3 were lost, by rejection and
\* by timeout, and the emergency result was returned
C5_Witness ==
  /\ Done /\ Standalone /\ ValidUrl /\ isConnected = <<TRUE>> /\ AllRacesLost
  /\ settled = << <<"variables", 1, "timeout">>, <<"variables", 2, "failed">>,
                  <<"variables", 3, "timeout">> >>
  /\ Result.figmaData.metadata # <<>>

\* the case of C6: at level 1, with a node id and code wanted, variables
\* resolved with 2 items, components lost to the timer, code resolved
C6_Case ==
  /\ Done /\ Standalone /\ isConnected = <<TRUE>>
  /\ Input.includeCode
  /\ finalResult.nodeId # <<>>
  /\ Len(svc.varsData) = 2
  /\ settled = << <<"variables", 1, "ok">>, <<"components", 1, "timeout">>,
                  <<"code", 1, "ok">> >>

\* C6 (as claimed): in that case the result has success = true, those 2
\* variables, non-null code, the component-mapping warning, and only level 1
\* was attempted.
C6_Original ==
  C6_Case =>
    /\ Result.success
    /\ Result.figmaData.variables = svc.varsData
    /\ Result.figmaData.code # Null
    /\ WComponentMapping \in Elems(Result.warnings)
    /\ LevelsAttempted = {1}

\* C6 (amended): as claimed, except that code is the text getCode resolved
\* with, which is non-null only if that text is not empty.
C6_Amended ==
  C6_Case =>
    /\ Result.success
    /\ Result.figmaData.variables = svc.varsData
    /\ Result.figmaData.code = IF svc.codeText = "" THEN Null ELSE svc.codeText
    /\ WComponentMapping \in Elems(Result.warnings)
    /\ LevelsAttempted = {1}

\* the case of C6 with a non-empty code text
C6_Witness ==
  /\ C6_Case
  /\ Result.figmaData.code = "export const TestComponent"
  /\ Len(Result.figmaData.variables) = 2

\* C9 (as claimed): when getVariableDefinitions fails and getCodeConnectMap
\* succeeds, the result has success = true, no variables, and the mappings
\* getCodeConnectMap returns.
C9_KeepsComponents ==
  (/\ Done /\ Standalone /\ ValidUrl /\ isConnected = <<TRUE>>
   /\ svc.variables = "rejects" /\ svc.components = "resolves") =>
    /\ Result.success
    /\ Result.figmaData.variables = <<>>
    /\ Result.figmaData.codeConnectMap = Response("components").mappings

\* C10 (as claimed): with an invalid url, extractWithProgress rejects with
\* 'Invalid Figma URL format', returns no result object, and attempts no
\* fallback level.
C10_RejectsInvalidUrl ==
  (/\ Done /\ Standalone /\ isConnected = <<TRUE>>
   /\ Input.url # <<>> /\ ~parseFigmaUrl(Input.url).ok) =>
    /\ thrown = <<EInvalidUrl>>
    /\ returned = <<>>
    /\ LevelsAttempted = {}

RECURSIVE SumSeq(_)
SumSeq(q) == IF q = <<>> THEN 0 ELSE q[1] + SumSeq(Tail(q))

\* C7: makeRequest makes at most retryAttempts attempts; the wait after the
\* n-th failed attempt, n < retryAttempts, is min(1000 * 2^(n-1), 5000) ms,
\* attempt n+1 starts only once that wait has passed, and nothing is waited
\* after the final failed attempt.
C7_Backoff ==
  /\ req.attempt <= config.retryAttempts
  /\ \A n \in 1..Len(req.waits) :
       /\ n < config.retryAttempts
       /\ req.waits[n] = IF 1000 * 2^(n - 1) < 5000 THEN 1000 * 2^(n - 1) ELSE 5000
  /\ req.pc = "attempt" => Len(req.waits) = req.attempt - 1 /\ now = SumSeq(req.waits)
  /\ req.pc = "delay" => Len(req.waits) = req.attempt
  /\ (req.pc = "thrown" /\ config.retryAttempts > 0) =>
       /\ req.attempt = config.retryAttempts
       /\ Len(req.waits) = req.attempt - 1
       /\ now = SumSeq(req.waits)

\* five attempts failed: the waits doubled up to the cap and none followed
\* the fifth failure
C7_Witness ==
  /\ req.pc = "thrown"
  /\ req.attempt = 5
  /\ req.waits = <<1000, 2000, 4000, 5000>>
  /\ now = 12000

\* C8: a read of a key no older than the TTL returns the stored value and
\* keeps the entry; a read of an older entry misses and deletes it; a key
\* found expired stays absent, and a read of an absent key misses, until the
\* key is set again.
C8_TTL ==
  /\ lastRead.read # <<>> =>
       LET r == lastRead.read[1]
       IN  /\ r.stored = <<>> => r.data = <<>>
           /\ (r.stored # <<>> /\ r.age <= config.cacheTTL) =>
                r.data = r.stored /\ r.kept
           /\ (r.stored # <<>> /\ r.age > config.cacheTTL) =>
                r.data = <<>> /\ ~r.kept
  /\ \A k \in lastRead.expired : k \notin DOMAIN cache

\* a read exactly TTL after the set hit, while another key, read after its
\* TTL, is gone
C8_Witness ==
  /\ lastRead.read # <<>>
  /\ lastRead.read[1].stored = <<"v2">>
  /\ lastRead.read[1].age = config.cacheTTL
  /\ lastRead.read[1].data = <<"v2">>
  /\ lastRead.expired # {}
  /\ lastRead.read[1].key \notin lastRead.expired

\* the progress events of a stage, oldest first
EventsOf(stage) == SelectSeq(progress, LAMBDA e : e[1] = stage)
SkippedMessages ==
  {"Code generation skipped", "Code generation skipped for performance"}
CodeNotWanted ==
  /\ Standalone
  /\ \/ Input.includeCode = FALSE
     \/ Input.url # <<>> /\ parseFigmaUrl(Input.url).nodeId = <<>>

\* C11: with includeCode = false or a URL without node id, getCode is never
\* invoked at any level; if a variables race succeeded the invocation
\* returns success = true and every event of its code stage is a 'skipped'
\* message at 100%, of which there is at least one.
C11_CodeSkipped ==
  CodeNotWanted =>
    /\ \A i \in 1..Len(invoked) : invoked[i][1] # "getCode"
    /\ (Done /\ "ok" \in Outcomes("variables")) =>
         /\ Result.success
         /\ EventsOf("code") # <<>>
         /\ \A i \in 1..Len(EventsOf("code")) :
              /\ EventsOf("code")[i][2] = 100
              /\ EventsOf("code")[i][3] \in SkippedMessages

\* includeCode = false on a URL with a node id: level 1 lost its variables
\* race, level 2 won it, and the code stage was skipped
C11_Witness ==
  /\ Done /\ CodeNotWanted
  /\ Input.includeCode = FALSE
  /\ finalResult.nodeId # <<>>
  /\ <<"variables", 2, "ok">> \in Elems(settled)
  /\ Result.success
  /\ <<"code", 100, "Code generation skipped for performance">> \in Elems(progress)

\* C12: in every state after a standalone invocation returned success =
\* true (also after calls left in the background have completed), the last
\* progress event is ('complete', 100), it is the only 'complete' event, and
\* events of the stages variables and code precede it.
C12_CompleteLast ==
  (Done /\ Standalone /\ returned # <<>> /\ Result.success) =>
    /\ progress # <<>>
    /\ progress[Len(progress)][1] = "complete"
    /\ progress[Len(progress)][2] = 100
    /\ Len(EventsOf("complete")) = 1
    /\ EventsOf("variables") # <<>>
    /\ EventsOf("code") # <<>>

\* the level 3 call lost its race, which made the invocation return the
\* emergency result, and completed in the background afterwards; 'complete'
\* is still last
C12_Witness ==
  /\ Done /\ Standalone /\ returned # <<>> /\ Result.success
  /\ <<"variables", 3, "timeout">> \in Elems(settled)
  /\ background = {}
  /\ progress[Len(progress)] = <<"complete", 100, "Extraction completed">>

\* C13: testConnection never throws; it returns false when the SSE GET
\* failed (refused, aborted, non-2xx, no body), when the first read met the
\* end of the stream, a read error or no endpoint frame, and when the probe
\* POST was refused, aborted or answered non-2xx; it returns true only after
\* an endpoint was negotiated and the probe POST was answered 2xx.
C13_NeverThrows ==
  /\ probe.pc # "thrown"
  /\ probe.error = <<>>
  /\ probe.pc = "returned" =>
       /\ probe.result \in {<<TRUE>>, <<FALSE>>}
       /\ probe.get # <<"ok">> => probe.result = <<FALSE>>
       /\ probe.first # <<"endpoint">> => probe.result = <<FALSE>>
       /\ (probe.post # <<>> /\ (probe.post[1].kind # "answered"
                                 \/ probe.post[1].status \notin 200..299)) =>
            probe.result = <<FALSE>>
       /\ probe.result = <<TRUE>> =>
            /\ probe.get = <<"ok">> /\ probe.first = <<"endpoint">>
            /\ probe.post # <<>>
            /\ probe.post[1].kind = "answered"
            /\ probe.post[1].status \in 200..299
  /\ probe.pc \in {"get", "read", "post"} => probe.result = <<>>

\* the probe POST was answered 401 after a successful negotiation and
\* testConnection returned false
C13_Witness ==
  /\ probe.pc = "returned"
  /\ probe.get = <<"ok">> /\ probe.first = <<"endpoint">>
  /\ probe.post # <<>>
  /\ probe.post[1].status = 401
  /\ probe.result = <<FALSE>>

\* C14: for every maxWaitTime in 5000..60000 (and the 15000 used when the
\* option is absent), the node-id 1311-9692 is classified complex and 12-34
\* is not, and each level-1 timeout computed for the former is strictly
\* smaller than the one computed for the latter with the same maxWaitTime.
C14_ComplexShorter ==
  /\ detectComplexLayout(UrlComplex)
  /\ ~detectComplexLayout(UrlSimpleNode)
  /\ \A i, j \in 1..Len(calc) :
       (/\ calc[i].fn = "getStageTimeouts" /\ calc[j].fn = "getStageTimeouts"
        /\ calc[i].arg.url = UrlComplex /\ calc[j].arg.url = UrlSimpleNode
        /\ calc[i].arg.maxWaitTime = calc[j].arg.maxWaitTime) =>
         /\ calc[i].value.variables < calc[j].value.variables
         /\ calc[i].value.components < calc[j].value.components
         /\ calc[i].value.code < calc[j].value.code

\* maxWaitTime = 60000: both urls take the capped values, 3 s / 5 s / 8 s
\* against 5 s / 10 s / 15 s (in tenths of a millisecond)
C14_Witness ==
  /\ Len(calc) = 2
  /\ calc[1].arg = [url |-> UrlComplex, maxWaitTime |-> <<60000>>]
  /\ calc[1].value = [variables |-> 30000, components |-> 50000, code |-> 80000]
  /\ calc[2].arg = [url |-> UrlSimpleNode, maxWaitTime |-> <<60000>>]
  /\ calc[2].value = [variables |-> 50000, components |-> 100000, code |-> 150000]

\* C15: getEfficiencyScore() = clamp(100 - min(30, max(0, (totalDuration -
\* 15000) / 1000)) - (20 if a timeout was recorded) - 5 * retryAttempts
\* + 2 * cacheHits, 0, 100), in thousandths of a point; a 20000 ms run with
\* one timeout and no retries or cache hits scores 75; the score is in 0..100.
C15_Score ==
  \A i \in 1..Len(calc) :
    calc[i].fn = "getEfficiencyScore" =>
      LET a == calc[i].arg
          overtime == Max(0, a.totalDuration - 15000)
          raw == 100000 - Min(30000, overtime)
                 - (IF a.timeoutOccurred THEN 20000 ELSE 0)
                 - 5000 * a.retryAttempts + 2000 * a.cacheHits
      IN  /\ calc[i].value = Clamp(0, raw, 100000)
          /\ calc[i].value \in 0..100000
          /\ (/\ a.totalDuration = 20000 /\ a.timeoutOccurred
              /\ a.retryAttempts = 0 /\ a.cacheHits = 0) =>
               calc[i].value = 75000

\* a run of 20 s with a timeout recorded for the code stage scored 75
C15_Witness ==
  /\ calc # <<>>
  /\ calc[1].fn = "getEfficiencyScore"
  /\ calc[1].arg = [totalDuration |-> 20000, timeoutOccurred |-> TRUE,
                    timeoutStage |-> <<"code">>, cacheHits |-> 0,
                    retryAttempts |-> 0]
  /\ calc[1].value = 75000

\* the level-4 fallback ran: its first progress event was emitted
EmergencyRan ==
  \E i \in 1..Len(progress) :
    progress[i][3] = "Emergency fallback: Basic info extracted"

\* the variables race of level n settled without success
VariablesFailedAt(n) ==
  \E o \in {"failed", "timeout"} : <<"variables", n, o>> \in Elems(settled)

\* the warning that announces the transition to level n
FallbackWarning(n) ==
  CASE n = 2 -> WFallbackBalanced
    [] n = 3 -> WFallbackMinimal
    [] n = 4 -> WFallbackEmergency

\* the levels whose attempt has begun
LevelsBegun == LevelsAttempted \cup (IF EmergencyRan THEN {4} ELSE {})

\* C16: standalone and connected, the levels are attempted in the order
\* 1, 2, 3, 4, each at most once; level n+1 is attempted exactly when the
\* variables race of level n did not succeed; the fallback warning is
\* appended at each transition (and only then), in the order of the levels;
\* level 4 runs only after levels 1, 2 and 3 all failed.
C16_FallbackOrder ==
  (Standalone /\ isConnected = <<TRUE>>) =>
    /\ \A i, j \in 1..Len(invoked) :
         (i < j /\ invoked[i][2] >= 1) =>
           /\ invoked[i][2] <= invoked[j][2]
           /\ invoked[i] # invoked[j]
    /\ \A n \in LevelsBegun : n > 1 => (n - 1) \in LevelsBegun
    /\ \A n \in LevelsAttempted :
         \E i \in 1..Len(invoked) :
           /\ invoked[i] = <<"getVariableDefinitions", n>>
           /\ \A j \in 1..(i - 1) : invoked[j][2] < n
    /\ EmergencyRan => Done
    /\ \A n \in 1..3 : (n + 1) \in LevelsBegun <=> VariablesFailedAt(n)
    /\ \A n \in 2..4 : n \in LevelsBegun <=> FallbackWarning(n) \in Elems(warnings)
    /\ \A i, j \in 1..Len(warnings) :
         \A n, m \in 2..4 :
           (warnings[i] = FallbackWarning(n) /\ warnings[j] = FallbackWarning(m)
            /\ n < m) => i < j
    /\ \A i, j \in 1..Len(warnings) :
         (warnings[i] = WFallbackEmergency /\ warnings[j] = WEmergencyActive) => i < j
    /\ EmergencyRan => \A n \in 1..3 : VariablesFailedAt(n)

\* all four levels ran, one after the other, with the three warnings
C16_Witness ==
  /\ Standalone /\ isConnected = <<TRUE>> /\ Done
  /\ invoked = <<<<"testConnection", 0>>, <<"getVariableDefinitions", 1>>,
                 <<"getVariableDefinitions", 2>>, <<"getVariableDefinitions", 3>>>>
  /\ EmergencyRan
  /\ \A n \in 2..4 : FallbackWarning(n) \in Elems(warnings)

\* C17: data produced by a client call that lost its race to the stage
\* timer never appears in the result of that invocation.  The cache is
\* empty when the invocation starts and the losing call missed it, so a later
\* level's call for the same operation that is answered from the cache is
\* answered with what a losing call stored there after its timer fired; the
\* step that resumes from such an answer must not return that data.
C17_LateDataDiscarded ==
  [][(/\ pc = "race"
      /\ race[1].call = "cached"
      /\ \E n \in 1..3 : /\ n < race[1].level
                         /\ <<race[1].op, n, "timeout">> \in Elems(settled)
      /\ race[1].op = "variables"
      /\ svc.varsData # <<>>
      /\ returned' # <<>>)
       => returned'[1].figmaData.variables # race[1].data[1].variables]_vars

\* C18: when a makeRequestWithSSE attempt has returned or thrown, the
\* session stream it opened is not open any more: its reader was cancelled
\* or the stream ended (or broke) before; this on every exit path.
C18_SessionClosed ==
  sse.pc \in {"returned", "thrown"} => sse.reader # "open"

\* the message frames sent so far that carry a result or an error
QualifyingSent == SelectSeq(sse.sent, Qualifies)

\* C20: an attempt delivers exactly one outcome, a response or an error, and
\* nothing that happens afterwards changes it; a response it returns is the
\* first message frame in stream order that carries a result or an error
\* (with the request's id).
C20_FirstFrameWins ==
  /\ [](/\ sse.pc \in {"returned", "thrown"} <=> sse.outcome # <<>>
        /\ sse.pc = "returned" =>
             /\ sse.outcome[1].ok
             /\ QualifyingSent # <<>>
             /\ sse.outcome[1].value = [QualifyingSent[1] EXCEPT !.id = RequestId]
        /\ sse.pc = "thrown" => ~sse.outcome[1].ok)
  /\ [][sse.outcome # <<>> => sse.outcome' = sse.outcome]_vars

\* an exception was raised before the levels started: no url and no usable
\* figmaData, a failed connection test, or a url parseFigmaUrl rejects
RaisedBeforeLevels ==
  \/ Standalone /\ Input.url = <<>>
  \/ isConnected = <<FALSE>>
  \/ isConnected = <<TRUE>> /\ ~parseFigmaUrl(Input.url).ok

\* an exception was raised inside a level: a client call rejected, or the
\* stage timer rejected the race
RaisedInsideLevel ==
  \E i \in 1..Len(settled) : settled[i][3] \in {"failed", "timeout"}

\* the invocation returned a failure: success = false, a non-empty errors
\* list, and ('complete', 0) as the last progress event
FailureReturned ==
  /\ returned # <<>>
  /\ ~Result.success
  /\ Result.errors # <<>>
  /\ progress # <<>>
  /\ progress[Len(progress)][1] = "complete"
  /\ progress[Len(progress)][2] = 0

HasResponseField(x) == x.json /\ (x.result # <<>> \/ x.error # <<>>)

\* the frames with such a field among those sent so far
ResponsesSent == SelectSeq(sse.sent, HasResponseField)

\* C21: a message frame whose data parses as JSON is accepted exactly when
\* the object has a result or an error field, whatever the field's value;
\* other frames are skipped and the scan goes on.  Stated for the first
\* chunk read, which holds whole frames only: if it carries such a frame the
\* attempt returns the first of them, and a returned response always has
\* one of the two fields.
C21_AcceptsByField ==
  /\ (sse.chunks = 1 /\ sse.buffer = Blank /\ ResponsesSent # <<>>) =>
       /\ sse.pc = "returned"
       /\ sse.outcome[1].value = [ResponsesSent[1] EXCEPT !.id = RequestId]
  /\ sse.pc = "returned" =>
       (sse.outcome[1].value.result # <<>> \/ sse.outcome[1].value.error # <<>>)

\* C22: a response carrying an error field is returned by makeRequest on the
\* attempt that received it, with no retry and no backoff after it, and the
\* client method that called makeRequest then throws a FigmaClientError with
\* its own code, no further attempt being made.
C22_ErrorFieldIsResponse ==
  req.response = <<"error">> =>
    /\ req.pc = "returned"
    /\ req.attempt >= 1
    /\ Len(req.waits) = req.attempt - 1
    /\ now = SumSeq(req.waits)
    /\ req.method # <<>> =>
         /\ req.surfaced = <<Failure(MethodErrorCode(req.method[1]))>>
         /\ \A k \in DOMAIN cache :
              k \in DOMAIN req.entry[1].cache /\ cache[k] = req.entry[1].cache[k]

\* getCode's third attempt received an error response after two failures:
\* it was surfaced as GET_CODE_FAILED after two waits only
C22_Witness ==
  /\ req.method = <<"code">>
  /\ req.response = <<"error">>
  /\ req.attempt = 3
  /\ req.waits = <<1000, 2000>>
  /\ req.surfaced = <<Failure("GET_CODE_FAILED")>>

\* C23: an attempt answered 401 (on the SSE GET or on the request POST) is
\* the last one: makeRequest throws after it whatever retryAttempts is,
\* while after any other failure it throws only when no attempt remains.
C23_AuthNotRetried ==
  /\ req.met401 => req.pc = "thrown"
  /\ (req.pc = "thrown" /\ ~req.met401 /\ config.retryAttempts > 0) =>
       req.attempt = config.retryAttempts

\* C24: when makeRequest throws, the value thrown is a defined error, the
\* one of the last attempt performed, for every retryAttempts from 0 on.
C24_LastErrorThrown ==
  req.pc = "thrown" =>
    /\ req.lastError # <<>>
    /\ req.attempt >= 1

\* the attempt failed the way the claimed classification prescribes for an
\* HTTP status: 503 as SERVER_UNAVAILABLE, 401 as AUTH_FAILED, any other
\* status as another error that carries the status code
ClassifiedAs(status) ==
  /\ sse.pc = "thrown"
  /\ CASE status = 503 -> sse.outcome = <<Failure("SERVER_UNAVAILABLE")>>
       [] status = 401 -> sse.outcome = <<Failure("AUTH_FAILED")>>
       [] OTHER -> /\ sse.outcome[1].value \notin {"SERVER_UNAVAILABLE", "AUTH_FAILED"}
                   /\ sse.statusCode = <<status>>

\* C25: on the call path a non-2xx status of the SSE GET or of the request
\* POST is classified by the status: 503 SERVER_UNAVAILABLE, 401
\* AUTH_FAILED, otherwise a generic HTTP error carrying the status code.
C25_StatusClassified ==
  /\ sse.get = <<"401">> => ClassifiedAs(401)
  /\ sse.get = <<"500">> => ClassifiedAs(500)
  /\ sse.get = <<"503">> => ClassifiedAs(503)
  /\ (sse.post # <<>> /\ sse.post[1].kind = "answered"
      /\ sse.post[1].status \notin 200..299) => ClassifiedAs(sse.post[1].status)

\* C26: an attempt that was accepted (202) and whose config.timeout ran out
\* before an acceptable frame arrived has cancelled the read and failed with
\* TIMEOUT, and nothing is delivered afterwards; the abort signal of the SSE
\* GET, armed earlier with the same timeout, does not change that.
C26_TimeoutCode ==
  (/\ sse.post # <<>> /\ sse.post[1].kind = "answered" /\ sse.post[1].status = 202
   /\ (sse.signal = "fired" \/ sse.timer = "fired")) =>
    /\ sse.pc = "thrown"
    /\ sse.outcome = <<Failure("TIMEOUT")>>
    /\ sse.reader = "cancelled"

\* C27: a POST answered 202 is accepted with an empty body as with the body
\* 'Accepted': testConnection does not return false, and an attempt does not
\* fail at the POST.
C27_Accepted202 ==
  /\ (/\ probe.pc = "returned" /\ probe.post # <<>>
      /\ probe.post[1].kind = "answered" /\ probe.post[1].status = 202
      /\ probe.post[1].body \in {"", "Accepted"}) => probe.result = <<TRUE>>
  /\ (/\ sse.post # <<>> /\ sse.post[1].kind = "answered" /\ sse.post[1].status = 202
      /\ sse.post[1].body \in {"", "Accepted"}) =>
       /\ sse.timer # "none"
       /\ sse.outcome # <<Failure("UNEXPECTED_RESPONSE")>>

\* the stages whose timer won a race of this invocation
TimedOutStages == {settled[i][1] : i \in {j \in 1..Len(settled) : settled[j][3] = "timeout"}}

\* C28: the performance metrics returned with the result have
\* timeoutOccurred = TRUE exactly when some stage timer won its race during
\* the invocation, and timeoutStage then names a stage that timed out.
C28_TimeoutReported ==
  returned # <<>> =>
    LET perf == returned[1].performance
    IN  /\ perf.timeoutOccurred <=> TimedOutStages # {}
        /\ perf.timeoutOccurred =>
              /\ perf.timeoutStage # <<>>
              /\ perf.timeoutStage[1] \in TimedOutStages

\* the stage whose race must have settled before the call of `method` starts
StageBefore(method) ==
  CASE method = "getCodeConnectMap" -> <<"variables">>
    [] method = "getCode"           -> <<"components">>
    [] OTHER                        -> <<>>

\* the client calls made by the levels (testConnection is recorded at level 0)
StageCalls == SelectSeq(invoked, LAMBDA c : c[2] > 0)

C30_InvocationsIsolated ==
  \A i \in Invocations :
    /\ overlap.calls[i].events = overlap.calls[i].ownEvents
    /\ overlap.calls[i].performance = overlap.calls[i].ownPerformance

\* the client method call under way or finished, its key, the cache it found
\* and the cache its initial read left
MethodCalled == req.method # <<>> /\ req.entry # <<>>
CalledKey == CacheKey(req.method[1], CallUrl, CallNodeId)
CacheAtCall == req.entry[1].cache
CacheAfterRead ==
  IF config.cacheEnabled
  THEN getFromCache(CacheAtCall, CalledKey, req.entry[1].now).cache
  ELSE CacheAtCall
CallFailed == req.surfaced # <<>> /\ ~req.surfaced[1].ok
GotResult == req.pc = "returned" /\ req.response = <<"result">>

\* C31 (as claimed): the cache is written only after a response without an
\* error field; a call that fails in transport, times out or receives a
\* JSON-RPC error leaves the cache as it found it; with cacheEnabled = false
\* the client methods neither read nor write the cache.
C31_Original ==
  MethodCalled =>
    /\ CallFailed => cache = CacheAtCall
    /\ cache # CacheAtCall => GotResult
    /\ ~config.cacheEnabled => cache = CacheAtCall /\ req.pc # "cached"

\* C31 (amended): a client method stores an entry only after a response
\* without an error field, under its own key; until then, and when the call
\* fails, the cache is what its initial read left, which with cacheEnabled =
\* true differs from the cache it found by the expired entry under its own
\* key that the read deleted; with cacheEnabled = false the cache is neither
\* read nor written.
C31_Amended ==
  MethodCalled =>
    /\ ~GotResult => cache = CacheAfterRead
    /\ GotResult =>
         cache = IF config.cacheEnabled
                 THEN setCache(CacheAfterRead, CalledKey, Response(req.method[1]),
                               now, config.cacheTTL)
                 ELSE CacheAtCall
    /\ ~config.cacheEnabled => cache = CacheAtCall /\ req.pc # "cached"

\* getCode found an expired entry under its key, received a JSON-RPC error
\* on its second attempt and threw: the expired entry is gone and nothing
\* was stored
C31_Witness ==
  /\ config.cacheEnabled
  /\ req.method = <<"code">>
  /\ CalledKey \in DOMAIN CacheAtCall
  /\ req.attempt = 2
  /\ req.response = <<"error">>
  /\ req.surfaced = <<Failure("GET_CODE_FAILED")>>
  /\ cache = <<>>

\* C32: a response returned by the attempt carries the id of the request the
\* attempt sent, whatever id its frame carried, and the frame's id plays no
\* part in its acceptance: the first chunk read, which holds whole frames
\* only, makes the attempt return its first frame with a truthy result or
\* error, with the id replaced.
C32_IdOverwritten ==
  /\ sse.pc = "returned" => sse.outcome[1].value.id = sse.requestId
  /\ (sse.chunks = 1 /\ sse.buffer = Blank /\ QualifyingSent # <<>>) =>
       /\ sse.pc = "returned"
       /\ sse.outcome[1].value = [QualifyingSent[1] EXCEPT !.id = sse.requestId]

\* the tenth-or-later request of a client was answered by a frame carrying
\* another id, which was returned under the request's id
C32_Witness ==
  /\ sse.pc = "returned"
  /\ sse.requestId = 9
  /\ QualifyingSent # <<>>
  /\ QualifyingSent[1].id = 1
  /\ sse.outcome[1].value.id = 9
  /\ sse.outcome[1].value.result = QualifyingSent[1].result

\* the warnings tryOptimalExtraction has for a stage that did not succeed,
\* and what their texts say about the cause
StageWarningTexts(op) ==
  CASE op = "components" -> {WComponentMapping}
    [] op = "code"       -> {WCodeTimedOut}
    [] OTHER             -> {}
SaysTimedOut == {WCodeTimedOut}
SaysFailed == {WComponentMapping}

\* C33: when the components or the code race of level 1 was not won by the
\* call, the result carries a warning for that stage whose text names the
\* cause: 'timed out' when the stage timer won, 'failed' when the call
\* rejected.
C33_WarningNamesCause ==
  returned # <<>> =>
    \A i \in 1..Len(settled) :
      (settled[i][1] \in {"components", "code"} /\ settled[i][2] = 1
       /\ settled[i][3] \in {"timeout", "failed"}) =>
        LET given == {w \in Elems(returned[1].warnings) :
                        w \in StageWarningTexts(settled[i][1])}
        IN  /\ given # {}
            /\ settled[i][3] = "timeout" => given \subseteq SaysTimedOut
            /\ settled[i][3] = "failed" => given \subseteq SaysFailed

\* C34: at each of the levels 1, 2 and 3, every stage timeout armed for a
\* URL classified complex is strictly shorter than the timeout armed at the
\* same level and stage for a non-complex URL with the same options.
C34_ComplexShorterEveryLevel ==
  \A i, j \in 1..Len(calc) :
    (/\ calc[i].fn = "getStageTimeouts" /\ calc[j].fn = "getStageTimeouts"
     /\ calc[i].arg.url = UrlComplex /\ calc[j].arg.url = UrlSimpleNode
     /\ calc[i].arg.maxWaitTime = calc[j].arg.maxWaitTime) =>
      \A level \in 1..3 :
        \A stage \in DOMAIN calc[i].levels[level] :
          calc[i].levels[level][stage] < calc[j].levels[level][stage]

\* the stage races one invocation can arm, by the way it takes through the
\* levels: all of level 1; level 1 failing on variables, then level 2; levels
\* 1 and 2 failing on variables, then level 3.  The sums are in tenths of a
\* millisecond, like the timeouts.
ArmedSums(levels) ==
  { levels[1].variables + levels[1].components + levels[1].code,
    levels[1].variables + levels[2].variables + levels[2].components,
    levels[1].variables + levels[2].variables + levels[3].variables }

\* C35: the timeouts of all stage races an invocation can arm across levels
\* 1 to 3 add up to at most maxWaitTime (15000 ms when the option is
\* absent), for every maxWaitTime in 5000..60000, complex URL or not.
C35_MaxWaitBounds ==
  \A i \in 1..Len(calc) :
    calc[i].fn = "getStageTimeouts" =>
      LET m == IF calc[i].arg.maxWaitTime = <<>> THEN 15000
               ELSE calc[i].arg.maxWaitTime[1]
      IN  \A total \in ArmedSums(calc[i].levels) : total <= 10 * m

\* C36: when extractWithProgress has returned, no stage timer armed by the
\* invocation is still pending, so none fires after the result was returned.
C36_NoTimerPending ==
  returned # <<>> => timers = {}

\* the input inp with timeoutStrategy x in place of its own
WithStrategy(inp, x) == [inp EXCEPT !.timeoutStrategy = x]

\* the ways the race of the awaited call can settle: the call's data (from
\* the cache or from the service), or a rejection by the call or the timer
RaceOutcomes ==
  { [ok |-> TRUE, data |-> IF race[1].data # <<>> THEN race[1].data[1]
                           ELSE Response(race[1].op)],
    [ok |-> FALSE, data |-> <<>>] }

====
